---- MODULE Spec2Model ----
(***************************************************************************)
(* The broadcast engine of lofi-radio: StreamEngine (streamEngine.ts), the *)
(* track provider of server.ts, PlaylistManager with its subscribers       *)
(* (playlistManager.ts), and the frame reader and the timer of             *)
(* mp3parser.ts, as a state machine.  One step of a producer loop is the   *)
(* code that runs between two awaits; connection events, start() and       *)
(* stop() interleave at the awaits.                                        *)
(***************************************************************************)
EXTENDS Integers, Sequences, FiniteSets, TLC

\* ------------------------------------------------------------------ bounds
MaxListeners == 2    \* audio connections that ever arrive
MaxSubs == 2         \* now-playing subscribers that ever arrive
MaxLoops == 2        \* start() calls in one run
MaxTracks == 2       \* files in the songs directory
MaxFrames == 2       \* frames in one file
MaxCalls == 3        \* calls of the track provider in one run
MaxBeats == 1        \* heartbeat ticks in one run
SendQueueBound == 2  \* a send-queue bound for a listener
LifeSinks == 1       \* connections of each kind under SpecLife
MaxNotifies == 2     \* notifyTrackChange calls made apart from the provider
MaxFileFrames == 2   \* frames in a file read byte by byte
MaxPanels == 2       \* playlist subscribers that ever arrive
MaxResets == 2       \* calls of reset() on one reader
MaxInbox == 2        \* messages a playlist subscriber is pushed while it is followed
StackLimit == 200    \* nested calls the call stack holds (V8: some 10^4), scaled down

Listeners == 1..MaxListeners
Subscribers == 1..MaxSubs
Loops == 1..MaxLoops
Panels == 1..MaxPanels

\* a tombstone of a Set entry deleted while the Set is iterated
Empty == 0
\* `undefined` (no track) and `null` (no nowPlaying)
NoTrack == 0
NoNowPlaying == [track |-> NoTrack, startedAt |-> 0]

VARIABLES
    clients,       \* StreamEngine.clients: a Set, kept in insertion order
    sseClients,    \* StreamEngine.sseClients: a Set, kept in insertion order
    isRunning,     \* StreamEngine.isRunning
    nowPlaying,    \* StreamEngine.nowPlaying
    conn,          \* per audio connection: "none", "open", "closed"
    ended,         \* per audio connection: res.writableEnded
    queued,        \* per audio connection: frames written and not yet drained
    recv,          \* per audio connection: the frames written to it
    attachAt,      \* per audio connection: Len(log) at addClient
    dropAt,        \* per audio connection: the broadcast call that removed it (0: none)
    sconn,         \* per subscriber: "none", "open", "closed"
    sended,        \* per subscriber: res.writableEnded
    hb,            \* per subscriber: the heartbeat interval is set
    srecv,         \* per subscriber: the messages written to it
    subAt,         \* per subscriber: Len(pubLog) at addSSEClient
    beats,         \* heartbeat ticks so far
    pc,            \* per start() call: where its loop is suspended
    cur,           \* per start() call: the track in hand
    pos,           \* per start() call: frames read from the open reader
    stamp,         \* per start() call: startedAt of its streamTrack call
    tracks,        \* PlaylistManager.tracks (ids, in order)
    nextIndex,     \* PlaylistManager.nextIndex
    playingIndex,  \* PlaylistManager.playingIndex
    changes,       \* the trackChange messages notifyTrackChange built
    op,            \* the last call made to the PlaylistManager
    files,         \* the disk, per track: is the file there, does it open, its frames
    log,           \* the frames passed to broadcast()
    pubLog,        \* the snapshots passed to broadcastMetadata()
    bcast,         \* the last broadcast() call
    mcast,         \* the last broadcastMetadata() call
    calls,         \* calls of the track provider so far
    bytes,         \* the bytes of the file a Mp3FrameReader is made on
    layout,        \* how that file was put together: tag, garbage, frames
    fd,            \* Mp3FrameReader.fd: "none", "open", "closed"
    position,      \* Mp3FrameReader.position
    fileSize,      \* Mp3FrameReader.fileSize
    yielded,       \* what readNextFrame returned so far, nulls left out
    eof,           \* the last readNextFrame returned null
    thrown,        \* the last readNextFrame threw: the call stack ran out
    resets,        \* the calls of reset() on the reader
    openFds,       \* the descriptors opened by the readers of streamTrack and not closed
    plSseClients,  \* PlaylistManager.sseClients: a Set, kept in insertion order
    plConn,        \* per playlist subscriber: "none", "open", "closed"
    plEnded,       \* per playlist subscriber: res.writableEnded
    plHb,          \* per playlist subscriber: the heartbeat interval is set
    plRecv,        \* per playlist subscriber: the messages written to it
    now,           \* process.hrtime.bigint(), in microseconds
    startTime,     \* PreciseTimer.startTime, in microseconds
    elapsedTargetMs, \* PreciseTimer.elapsedTargetMs, kept in microseconds
    timerPc,       \* where streamTrack is with its timer: "idle", "ready", "sleep", "spin"
    due,           \* when the setTimeout of wait() is due
    frameDurationMs, \* frame.header.frameDurationMs of the frames paced, in microseconds
    frameCount,    \* the frames broadcast and paced since the timer was made
    lateBy         \* by how much the wait() before the last one returned late

\* what the synchronous code of the engine reads and writes
engineVars == <<clients, sseClients, nowPlaying, recv, queued, dropAt, srecv,
                log, pubLog, bcast, mcast>>
listenerVars == <<conn, ended, attachAt>>
subVars == <<sconn, sended, hb, subAt, beats>>
loopVars == <<pc, cur, pos, stamp, openFds>>
playlistVars == <<tracks, nextIndex, playingIndex, changes, op>>
readerVars == <<bytes, layout, fd, position, fileSize, yielded, eof, thrown, resets>>
timerVars == <<now, startTime, elapsedTargetMs, timerPc, due, frameDurationMs,
               frameCount, lateBy>>
\* the songs directory and what mp3parser.ts holds
parserVars == <<files, readerVars, timerVars>>
panelVars == <<plSseClients, plConn, plEnded, plHb, plRecv>>
vars == <<engineVars, isRunning, listenerVars, subVars, loopVars, playlistVars,
          parserVars, panelVars, calls>>

\* ----------------------------------------------------------------- helpers
Range(s) == {s[i] : i \in 1..Len(s)}

\* Set.prototype.add: appends unless present
SetAdd(s, x) == IF x \in Range(s) THEN s ELSE Append(s, x)

\* Set.prototype.delete outside an iteration
SetDelete(s, x) == SelectSeq(s, LAMBDA y : y # x)

\* A bug a list-backed set would have: deleting entry i shifts the later ones down
SpliceEntry(entries, i) == SubSeq(entries, 1, i - 1) \o SubSeq(entries, i + 1, Len(entries))

\* A bug: the failed sink is left in the set
KeepEntry(entries, i) == entries

\* Set.prototype.delete of the entry the iterator stands on: the entry is
\* emptied in place, the iterator's index stays valid
DeleteEntry(entries, i) == [entries EXCEPT ![i] = Empty]

\* the entries of a Set once its iteration is over
Live(entries) == SelectSeq(entries, LAMBDA y : y # Empty)

Count(s, x) == Cardinality({i \in 1..Len(s) : s[i] = x})

\* the loop `for (const client of set) { try { if (!client.writableEnded)
\* client.write(..) else set.delete(client) } catch { set.delete(client) } }`
\* from entry i on; thr: the sinks whose write throws in this call
RECURSIVE FanOutFrom(_, _, _, _, _)
FanOutFrom(i, entries, writes, thr, isEnded) ==
    IF i > Len(entries)
    THEN [entries |-> entries, writes |-> writes, raised |-> FALSE]
    ELSE LET c == entries[i] IN
         IF c = Empty
         THEN FanOutFrom(i + 1, entries, writes, thr, isEnded)
         ELSE IF ~isEnded[c]
              THEN IF c \in thr
                   THEN FanOutFrom(i + 1, DeleteEntry(entries, i), writes, thr, isEnded)
                   ELSE FanOutFrom(i + 1, entries, Append(writes, c), thr, isEnded)
              ELSE FanOutFrom(i + 1, DeleteEntry(entries, i), writes, thr, isEnded)

FanOut(set, thr, isEnded) == FanOutFrom(1, set, <<>>, thr, isEnded)

\* a frame: the payload of frame idx of a track, tagged with the streamTrack
\* call (stamp) that read it
Frame(t, i, st) == [track |-> t, idx |-> i, stamp |-> st]

\* JSON.stringify(nowPlaying) inside `data: ...\n\n`
DataMsg(np) == [kind |-> "data", track |-> np.track, startedAt |-> np.startedAt]
\* `: heartbeat\n\n`
HeartbeatMsg == [kind |-> "heartbeat", track |-> NoTrack, startedAt |-> 0]

\* the same message written n times
Times(m, n) == [i \in 1..n |-> m]

\* --------------------------------------------------- the engine, as a value
\* The fields of the engine and of its sinks that one synchronous stretch of
\* code goes through, so that the stretch is a composition of functions.
Engine ==
    [clients |-> clients, sseClients |-> sseClients, nowPlaying |-> nowPlaying,
     recv |-> recv, queued |-> queued, dropAt |-> dropAt, srecv |-> srecv,
     log |-> log, pubLog |-> pubLog, bcast |-> bcast, mcast |-> mcast]

Becomes(E) ==
    /\ clients' = E.clients
    /\ sseClients' = E.sseClients
    /\ nowPlaying' = E.nowPlaying
    /\ recv' = E.recv
    /\ queued' = E.queued
    /\ dropAt' = E.dropAt
    /\ srecv' = E.srecv
    /\ log' = E.log
    /\ pubLog' = E.pubLog
    /\ bcast' = E.bcast
    /\ mcast' = E.mcast

\* the subscribers of E that were attached before snapshot number st was
\* published and have not been written it
Unserved(E, st) ==
    {s \in Range(E.sseClients) :
        /\ subAt[s] < st
        /\ ~\E j \in 1..Len(E.srecv[s]) :
              E.srecv[s][j].kind = "data" /\ E.srecv[s][j].startedAt = st}

\* broadcast(data); thr: the listeners whose write throws in this call
Broadcast(E, frame, thr) ==
    LET r == FanOut(E.clients, thr, ended)
        members == Range(E.clients)
        bad == {c \in members : c \in thr \/ ended[c]}
        n == Len(E.log) + 1
    IN [E EXCEPT
          !.clients = Live(r.entries),
          !.recv = [c \in Listeners |-> E.recv[c] \o Times(frame, Count(r.writes, c))],
          !.queued = [c \in Listeners |-> E.queued[c] + Count(r.writes, c)],
          !.dropAt = [c \in Listeners |->
                        IF c \in bad /\ E.dropAt[c] = 0 THEN n ELSE E.dropAt[c]],
          !.log = Append(E.log, frame),
          !.bcast = [n |-> n, members |-> members, bad |-> bad, writes |-> r.writes,
                     raised |-> r.raised, np |-> E.nowPlaying.startedAt,
                     unserved |-> Unserved(E, frame.stamp)]]

\* broadcastMetadata(); thr: the subscribers whose write throws in this call
BroadcastMetadata(E, thr) ==
    IF E.nowPlaying = NoNowPlaying THEN E
    ELSE LET r == FanOut(E.sseClients, thr, sended)
             members == Range(E.sseClients)
             msg == DataMsg(E.nowPlaying)
         IN [E EXCEPT
               !.sseClients = Live(r.entries),
               !.srecv = [s \in Subscribers |-> E.srecv[s] \o Times(msg, Count(r.writes, s))],
               !.pubLog = Append(E.pubLog, E.nowPlaying),
               !.mcast = [n |-> Len(E.pubLog) + 1, members |-> members,
                          bad |-> {s \in members : s \in thr \/ sended[s]},
                          writes |-> r.writes, raised |-> r.raised]]

\* this.nowPlaying = {track, startedAt: Date.now()}; the clock is the number
\* of the snapshot
SetNowPlaying(E, t) ==
    [E EXCEPT !.nowPlaying = [track |-> t, startedAt |-> Len(E.pubLog) + 1]]

\* A bug: the first frame goes out before the snapshot is replaced and pushed
StreamTrackHeadLate(E, t, file, running, thrS, thrL) ==
    LET st == Len(E.pubLog) + 1 IN
    IF file.kind = "bad"
    THEN [E |-> BroadcastMetadata(SetNowPlaying(E, t), thrS),
          next |-> "errWait", pos |-> 0, stamp |-> st, fds |-> 0]
    ELSE IF file.frames >= 1 /\ running
    THEN [E |-> BroadcastMetadata(
                   SetNowPlaying(Broadcast(E, Frame(t, 1, st), thrL), t),
                   thrS),
          next |-> "pace", pos |-> 1, stamp |-> st, fds |-> 1]
    ELSE [E |-> BroadcastMetadata(SetNowPlaying(E, t), thrS),
          next |-> "trackEnd", pos |-> 0, stamp |-> st, fds |-> 0]

\* A bug: the snapshot is pushed twice for one streamTrack call
StreamTrackHeadTwice(E, t, file, running, thrS, thrL) ==
    LET E0 == BroadcastMetadata(SetNowPlaying(E, t), thrS)
        E1 == BroadcastMetadata(E0, thrS)
        st == E0.nowPlaying.startedAt
        E2 == Broadcast(E1, Frame(t, 1, st), thrL)
    IN IF file.kind = "bad"
       THEN [E |-> E1, next |-> "errWait", pos |-> 0, stamp |-> st, fds |-> 0]
       ELSE IF file.frames >= 1 /\ running
       THEN [E |-> E2, next |-> "pace", pos |-> 1, stamp |-> st, fds |-> 1]
       ELSE [E |-> E1, next |-> "trackEnd", pos |-> 0, stamp |-> st, fds |-> 0]

\* A bug: a reader that throws on a file in which it finds no frame
ThrowsWhenNoFrame(file) == file.frames = 0

\* fs.openSync of the constructor of the reader throws
OpenThrows(file) == file.kind = "bad"

\* fs.readSync throws in skipId3v2Tag, the descriptor being open, or in the
\* first readNextFrame()
ReadThrowsAtHead(file) ==
    \/ file.kind = "tagError"
    \/ file.kind = "readError" /\ file.frames = 0

\* streamTrack(track) up to its first await: the snapshot, its push, the
\* reader, the first frame; fds: the descriptors it opened and has not closed.
\* There is no try/finally around the reader: reader.close() is reached only
\* when the loop over the frames ends
StreamTrackHead(E, t, file, running, thrS, thrL) ==
    LET E1 == BroadcastMetadata(SetNowPlaying(E, t), thrS)
        st == E1.nowPlaying.startedAt
        E2 == Broadcast(E1, Frame(t, 1, st), thrL)
    IN IF E1.mcast.raised \/ OpenThrows(file)
       THEN [E |-> E1, next |-> "errWait", pos |-> 0, stamp |-> st, fds |-> 0]
       ELSE IF ReadThrowsAtHead(file)
       THEN [E |-> E1, next |-> "errWait", pos |-> 0, stamp |-> st, fds |-> 1]
       ELSE IF file.frames >= 1 /\ running
       THEN [E |-> E2, next |-> IF E2.bcast.raised THEN "errWait" ELSE "pace",
             pos |-> 1, stamp |-> st, fds |-> 1]
       ELSE [E |-> E1, next |-> "trackEnd", pos |-> 0, stamp |-> st, fds |-> 0]

\* ------------------------------------------------------------ the playlist
\* A bug: the cursor is not advanced
GetNextTrackStuck(tr, ni) ==
    IF Len(tr) = 0
    THEN [track |-> NoTrack, nextIndex |-> ni]
    ELSE [track |-> tr[ni + 1], nextIndex |-> ni]

\* A bug: the cursor runs off the end of the list
GetNextTrackNoWrap(tr, ni) ==
    IF Len(tr) = 0
    THEN [track |-> NoTrack, nextIndex |-> ni]
    ELSE [track |-> tr[ni + 1], nextIndex |-> ni + 1]

\* A bug: the cursor advances by two
GetNextTrackSkip(tr, ni) ==
    IF Len(tr) = 0
    THEN [track |-> NoTrack, nextIndex |-> ni]
    ELSE [track |-> tr[ni + 1], nextIndex |-> (ni + 2) % Len(tr)]

\* PlaylistManager.getNextTrack
GetNextTrack(tr, ni) ==
    IF Len(tr) = 0
    THEN [track |-> NoTrack, nextIndex |-> ni]
    ELSE [track |-> tr[ni + 1], nextIndex |-> (ni + 1) % Len(tr)]

\* Array.prototype.findIndex(t => t.id === id), 0-based, -1 when absent
FindIndex(tr, id) ==
    IF \E i \in 1..Len(tr) : tr[i] = id
    THEN (CHOOSE i \in 1..Len(tr) : tr[i] = id /\ \A j \in 1..(i - 1) : tr[j] # id) - 1
    ELSE -1

\* A bug: a track that is not in the list sends the UI cursor to the start
NotifyTrackChangeReset(tr, pi, id) ==
    IF FindIndex(tr, id) # -1 THEN FindIndex(tr, id) ELSE 0

\* PlaylistManager.notifyTrackChange: the new playingIndex
NotifyTrackChange(tr, pi, id) ==
    IF FindIndex(tr, id) # -1 THEN FindIndex(tr, id) ELSE pi

\* this.tracks[i]: undefined past the end
TrackAt(tr, i) == IF i + 1 \in 1..Len(tr) THEN tr[i + 1] ELSE NoTrack

\* A bug: the new order is applied and the cursors are left where they were
ReorderTracksKeepIndex(tr, ni, pi, ids) ==
    IF (\E k \in 1..Len(ids) : ids[k] \notin Range(tr)) \/ Len(ids) # Len(tr)
    THEN [ok |-> FALSE, tracks |-> tr, nextIndex |-> ni, playingIndex |-> pi]
    ELSE [ok |-> TRUE, tracks |-> ids, nextIndex |-> ni, playingIndex |-> pi]

\* PlaylistManager.reorderTracks(trackIds): every id must be known and the
\* list as long as the playlist; the cursors follow, by id, the tracks they
\* stood on
ReorderTracks(tr, ni, pi, ids) ==
    IF (\E k \in 1..Len(ids) : ids[k] \notin Range(tr)) \/ Len(ids) # Len(tr)
    THEN [ok |-> FALSE, tracks |-> tr, nextIndex |-> ni, playingIndex |-> pi]
    ELSE LET playingTrack == TrackAt(tr, pi)
             nextTrack == TrackAt(tr, ni)
         IN [ok |-> TRUE,
             tracks |-> ids,
             playingIndex |-> IF playingTrack # NoTrack /\ FindIndex(ids, playingTrack) # -1
                              THEN FindIndex(ids, playingTrack) ELSE pi,
             nextIndex |-> IF nextTrack # NoTrack /\ FindIndex(ids, nextTrack) # -1
                           THEN FindIndex(ids, nextTrack) ELSE ni]

\* loadTracksFromDisk: the .mp3 files of the songs directory in scan order,
\* the file at place i given id i; the listing does not change during a run
LoadTracksFromDisk == [i \in 1..Cardinality(DOMAIN files) |-> i]

\* the messages the PlaylistManager pushes to its subscribers
NoMsg == [type |-> "none", tracks |-> <<>>, track |-> NoTrack, currentIndex |-> 0]
PlaylistMsg(tr, pi) ==
    [type |-> "playlist", tracks |-> tr, track |-> NoTrack, currentIndex |-> pi]
TrackChangeMsg(t, pi) ==
    [type |-> "trackChange", tracks |-> <<>>, track |-> t, currentIndex |-> pi]

\* a call of the PlaylistManager: its name, its argument, what it returned
\* and what it pushed
Call(name, ids, ok, t, sent) ==
    [name |-> name, ids |-> ids, ok |-> ok, track |-> t, sent |-> sent]
NoOp == Call("none", <<>>, FALSE, NoTrack, NoMsg)

\* the ids a caller may name: those of the files and one that no track has
TrackIds == 1..(MaxTracks + 1)
\* the lists of ids a caller may pass to reorderTracks
IdLists == UNION {[1..k -> TrackIds] : k \in 0..(MaxTracks + 1)}

\* --------------------------------------------------------- the frame reader
\* BITRATE_TABLE and SAMPLE_RATE_TABLE, null written 0
BITRATE_TABLE == <<0, 32, 40, 48, 56, 64, 80, 96, 112, 128, 160, 192, 224, 256, 320, 0>>
SAMPLE_RATE_TABLE == <<44100, 48000, 32000, 0>>

\* Math.max
Larger(a, b) == IF a > b THEN a ELSE b

\* the byte at offset i of a buffer filled by fs.readSync from a file: what
\* the file holds there, and the zero of Buffer.alloc past its end
ByteAt(b, i) == IF i + 1 <= Len(b) THEN b[i + 1] ELSE 0

\* Buffer.alloc(n) after fs.readSync(fd, buf, 0, n, at)
ReadBuf(b, at, n) == [i \in 1..n |-> ByteAt(b, at + i - 1)]

\* what fs.readSync(fd, buf, 0, n, at) returns
BytesRead(b, at, n) ==
    IF Len(b) - at <= 0 THEN 0 ELSE IF Len(b) - at < n THEN Len(b) - at ELSE n

\* parseFrameHeader returned null
NoHeader == [frameSize |-> 0, bitrate |-> 0, sampleRate |-> 0, frameDurationUs |-> 0]

\* A bug: the padding bit is left out of the frame size
FrameSizeNoPadding(bitrate, sampleRate, padding) == (144 * bitrate * 1000) \div sampleRate

\* Math.floor((144 * bitrate * 1000) / sampleRate) + padding
FrameSize(bitrate, sampleRate, padding) ==
    (144 * bitrate * 1000) \div sampleRate + padding

\* parseFrameHeader(header), header being 4 bytes; the duration
\* (1152 / sampleRate) * 1000 ms is kept in whole microseconds
ParseFrameHeader(h) ==
    IF h[1] # 255 \/ (h[2] \div 32) # 7 THEN NoHeader
    ELSE IF (h[2] \div 8) % 4 = 1 THEN NoHeader
    ELSE IF (h[2] \div 2) % 4 = 0 THEN NoHeader
    ELSE LET bitrate == BITRATE_TABLE[((h[3] \div 16) % 16) + 1]
             sampleRate == SAMPLE_RATE_TABLE[((h[3] \div 4) % 4) + 1]
             padding == (h[3] \div 2) % 2
         IN IF bitrate = 0 THEN NoHeader
            ELSE IF sampleRate = 0 THEN NoHeader
            ELSE [frameSize |-> FrameSize(bitrate, sampleRate, padding),
                  bitrate |-> bitrate,
                  sampleRate |-> sampleRate,
                  frameDurationUs |-> (1152 * 1000000) \div sampleRate]

\* the "synchsafe" size of an ID3v2 header: 7 bits of each of its bytes 6..9,
\* the first the most significant
Synchsafe(header) ==
    (header[7] % 128) * 2097152 + (header[8] % 128) * 16384
        + (header[9] % 128) * 128 + (header[10] % 128)

\* skipId3v2Tag() from position 0: the position it leaves.  toString('ascii')
\* drops the high bit of each byte before it compares with 'ID3'
SkipId3v2Tag(b) ==
    LET header == ReadBuf(b, 0, 10) IN
    IF header[1] % 128 = 73 /\ header[2] % 128 = 68 /\ header[3] % 128 = 51
    THEN 10 + Synchsafe(header)
    ELSE 0

\* readNextFrame returned null
NoFrame == [data |-> <<>>, header |-> NoHeader, offset |-> 0]

\* A bug: a whole header's length is skipped when no header parses
ResyncByHeader(at) == at + 4

\* `this.position++` when the 4 bytes at the position parse as no header
Resync(at) == at + 1

\* the position after k times `this.position++`
Resyncs(at, k) == at + k * (Resync(at) - at)

\* readNextFrame() calls itself once for every position it passes over: the
\* number of positions from `at` on at which 4 bytes are read and parse as no
\* header
ResyncRun(b, size, at) ==
    LET Stops(p) == \/ p >= size
                    \/ BytesRead(b, p, 4) < 4
                    \/ ParseFrameHeader(ReadBuf(b, p, 4)) # NoHeader
    IN CHOOSE k \in 0..Larger(0, size - at) :
          Stops(Resyncs(at, k)) /\ \A j \in 0..(k - 1) : ~Stops(Resyncs(at, j))

\* readNextFrame() with the reader at position `at`, the call stack being
\* deep enough: what it returns (with the offset the frame was read at) and
\* the position it leaves
ReadNextFrame(b, size, at) ==
    LET p == Resyncs(at, ResyncRun(b, size, at)) IN
    IF p >= size THEN [frame |-> NoFrame, position |-> p]
    ELSE IF BytesRead(b, p, 4) < 4 THEN [frame |-> NoFrame, position |-> p]
    ELSE LET header == ParseFrameHeader(ReadBuf(b, p, 4)) IN
         [frame |-> [data |-> ReadBuf(b, p, header.frameSize),
                     header |-> header,
                     offset |-> p],
          position |-> p + header.frameSize]

\* readNextFrame() called from position `at` until it returns null: the
\* frames it returns
RECURSIVE ReadAll(_, _)
ReadAll(b, at) ==
    LET r == ReadNextFrame(b, Len(b), at) IN
    IF r.frame = NoFrame THEN <<>> ELSE <<r.frame>> \o ReadAll(b, r.position)

\* a reader made on a file and read to the end
ReadFile(b) == ReadAll(b, SkipId3v2Tag(b))

\* the files read byte by byte: an ID3v2 block or none, then frames, each
\* after some bytes that are no frame, then some more such bytes.  A frame is
\* an MPEG-1 Layer III header (32 kbit/s at 48 kHz without and with padding,
\* 32 kbit/s at 44.1 kHz, 40 kbit/s at 32 kHz), given with the length of the
\* frame it opens, and a body that opens with the bytes of a header and goes
\* on with the number of the frame
TagBodies == {<<>>, <<255, 251, 20, 0>>}
Tags == {<<>>} \cup {<<73, 68, 51, 4, 0, 0, 0, 0, 0, Len(body)>> \o body : body \in TagBodies}
Headers == {[bytes |-> <<255, 251, 20, 0>>, size |-> 96],
            [bytes |-> <<255, 251, 22, 0>>, size |-> 97],
            [bytes |-> <<255, 251, 16, 0>>, size |-> 104],
            [bytes |-> <<255, 251, 40, 0>>, size |-> 180]}
Garbage == {<<>>, <<0>>, <<255>>, <<0, 0, 0>>}
Trails == {<<>>, <<0, 0>>, <<255>>}
Layouts ==
    [tag : Tags,
     parts : UNION {[1..n -> [garbage : Garbage, header : Headers]] : n \in 0..MaxFileFrames},
     trail : Trails]
NoLayout == [tag |-> <<>>, parts |-> <<>>, trail |-> <<>>]

\* the bytes of frame k of a file
FrameOf(f, k) ==
    LET h == f.parts[k].header IN
    h.bytes \o <<255, 251, 20, 0>> \o [i \in 1..(h.size - 8) |-> k]

\* the bytes of a file up to and with its part k
RECURSIVE BytesUpTo(_, _)
BytesUpTo(f, k) ==
    IF k = 0 THEN f.tag
    ELSE BytesUpTo(f, k - 1) \o f.parts[k].garbage \o FrameOf(f, k)

BytesOf(f) == BytesUpTo(f, Len(f.parts)) \o f.trail

\* files that open with ten bytes that are, or look like, or are not an ID3v2
\* header: the marks 'ID3', 'ID3' with the high bit of each byte set, 'ID2'
\* and 'id3'; sizes 10, 10 with the high bit of its byte set, 0 with high
\* bits set, 0, and, after the first two marks, 128; then as many bytes as
\* the size says, zeros or the bytes of a frame header and zeros; then one or
\* two frames
TagMarks == {<<73, 68, 51>>, <<201, 196, 179>>, <<73, 68, 50>>, <<105, 100, 51>>}
TagSizes == {<<0, 0, 0, 10>>, <<0, 0, 0, 138>>, <<0, 0, 1, 0>>, <<128, 128, 128, 0>>,
             <<0, 0, 0, 0>>}
TagFill(n, withHeader) ==
    [i \in 1..n |-> IF withHeader /\ i <= 4 THEN <<255, 251, 20, 0>>[i] ELSE 0]
TagHead(mark, size, wh) ==
    mark \o <<4, 0, 0>> \o size \o TagFill(Synchsafe(<<0, 0, 0, 0, 0, 0>> \o size), wh)
TagHeads ==
    {<<>>}
    \cup {TagHead(mark, size, wh) :
             mark \in TagMarks, size \in TagSizes \ {<<0, 0, 1, 0>>}, wh \in BOOLEAN}
    \cup {TagHead(mark, <<0, 0, 1, 0>>, wh) :
             mark \in {<<73, 68, 51>>, <<201, 196, 179>>}, wh \in BOOLEAN}
TagLayouts ==
    [tag : TagHeads,
     parts : UNION {[1..n -> [garbage : {<<>>}, header : Headers]] : n \in 1..MaxFileFrames},
     trail : {<<>>}]

\* files of frames of any MPEG version: byte 1 of a header holds the version
\* in its bits 4-3, 11 for MPEG-1 (FB), 10 for MPEG-2 (F3), 00 for MPEG-2.5
\* (E3), 01 reserved (EB); a Layer III frame of MPEG-2 at 8 kbit/s and 24 kHz
\* is 24 bytes long, one of MPEG-2.5 at 8 kbit/s and 12 kHz is 48
OtherVersionHeaders == {[bytes |-> <<255, 243, 20, 0>>, size |-> 24],
                        [bytes |-> <<255, 227, 20, 0>>, size |-> 48],
                        [bytes |-> <<255, 235, 20, 0>>, size |-> 24]}
VersionLayouts ==
    [tag : {<<>>},
     parts : UNION {[1..n -> [garbage : {<<>>},
                              header : {h \in Headers : h.size = 96}
                                          \cup OtherVersionHeaders]] :
                       n \in 0..MaxFileFrames},
     trail : Trails]

\* files with long runs of bytes that are no frame, around the length the
\* call stack allows, before, between and after the frames; and files whose
\* ID3v2 header gives a size (16383) that ends beyond the file
Zeros(n) == [i \in 1..n |-> 0]
LongGarbage == {<<>>, Zeros(StackLimit - 1), Zeros(StackLimit + 2)}
GarbageLayouts ==
    [tag : {<<>>, <<73, 68, 51, 4, 0, 0, 0, 0, 127, 127>>},
     parts : UNION {[1..n -> [garbage : LongGarbage,
                              header : {h \in Headers : h.size = 96}]] :
                       n \in 0..MaxFileFrames},
     trail : {<<>>, <<0, 0>>, Zeros(StackLimit + 2)}]

\* new Mp3FrameReader(path): openSync, fstatSync, skipId3v2Tag
ReaderOpen ==
    /\ fd = "none"
    /\ fd' = "open"
    /\ fileSize' = Len(bytes)
    /\ position' = SkipId3v2Tag(bytes)
    /\ UNCHANGED <<bytes, layout, yielded, eof, thrown, resets, files, engineVars, isRunning, listenerVars,
                   subVars, loopVars, playlistVars, panelVars, timerVars,
                   calls>>

\* the nested calls of readNextFrame() are more than the call stack holds:
\* RangeError, Maximum call stack size exceeded
StackOverflows(b, size, at) == ResyncRun(b, size, at) >= StackLimit

\* readNextFrame()
ReaderRead ==
    /\ fd = "open"
    /\ IF StackOverflows(bytes, fileSize, position)
       THEN /\ thrown' = TRUE
            /\ position' \in {position + StackLimit - 1, position + StackLimit}
            /\ UNCHANGED <<eof, yielded>>
       ELSE LET r == ReadNextFrame(bytes, fileSize, position) IN
            /\ thrown' = FALSE
            /\ position' = r.position
            /\ eof' = (r.frame = NoFrame)
            /\ yielded' = IF r.frame = NoFrame THEN yielded ELSE Append(yielded, r.frame)
    /\ UNCHANGED <<bytes, layout, fd, fileSize, resets, files, engineVars, isRunning, listenerVars,
                   subVars, loopVars, playlistVars, panelVars, timerVars,
                   calls>>

\* A bug: reset() goes back to offset 0
ReaderResetToZero ==
    /\ fd = "open"
    /\ resets < MaxResets
    /\ resets' = resets + 1
    /\ position' = 0
    /\ yielded' = <<>>
    /\ eof' = FALSE
    /\ thrown' = FALSE
    /\ UNCHANGED <<bytes, layout, fd, fileSize, files, engineVars, isRunning, listenerVars,
                   subVars, loopVars, playlistVars, panelVars, timerVars,
                   calls>>

\* reset(): position 0, then skipId3v2Tag(); the frames returned are counted
\* anew
ReaderReset ==
    /\ fd = "open"
    /\ resets < MaxResets
    /\ resets' = resets + 1
    /\ position' = SkipId3v2Tag(bytes)
    /\ yielded' = <<>>
    /\ eof' = FALSE
    /\ thrown' = FALSE
    /\ UNCHANGED <<bytes, layout, fd, fileSize, files, engineVars, isRunning, listenerVars,
                   subVars, loopVars, playlistVars, panelVars, timerVars,
                   calls>>

\* close()
ReaderClose ==
    /\ fd = "open"
    /\ fd' = "closed"
    /\ UNCHANGED <<bytes, layout, position, fileSize, yielded, eof, thrown, resets, files, engineVars,
                   isRunning, listenerVars, subVars, loopVars, playlistVars, panelVars, timerVars,
                   calls>>

\* -------------------------------------------------------------------- Init
FileStates ==
    {[kind |-> "missing", frames |-> 0], [kind |-> "bad", frames |-> 0]}
    \cup {[kind |-> "ok", frames |-> k] : k \in 0..MaxFrames}

\* what the producer meets of a file of the songs directory that is there
\* and is read without error: the frames a reader yields on it, and its size
FileOf(b) == [kind |-> "ok", frames |-> Len(ReadFile(b)), size |-> Len(b)]

\* the files the producer is run on: files of 0 to MaxFrames frames with or
\* without two bytes after them, among them the file of no byte at all; a
\* file that is not there any more; one whose open throws; one whose read
\* throws under skipId3v2Tag; one whose read throws after k frames
TrackLayouts ==
    [tag : {<<>>},
     parts : UNION {[1..n -> [garbage : {<<>>}, header : {h \in Headers : h.size = 96}]] :
                       n \in 0..MaxFrames},
     trail : {<<>>, <<0, 0>>}]
TrackFiles ==
    {FileOf(BytesOf(f)) : f \in TrackLayouts}
    \cup {[kind |-> k, frames |-> 0, size |-> 96] : k \in {"missing", "bad", "tagError"}}
    \cup {[kind |-> "readError", frames |-> k, size |-> 96 * MaxFrames] : k \in 0..1}

NoCall == [n |-> 0, members |-> {}, bad |-> {}, writes |-> <<>>, raised |-> FALSE]

\* no reader has been made, and no timer
ReaderIdle ==
    /\ fd = "none"
    /\ position = 0
    /\ fileSize = 0
    /\ yielded = <<>>
    /\ eof = FALSE
    /\ thrown = FALSE
    /\ resets = 0
    /\ startTime = 0
    /\ elapsedTargetMs = 0
    /\ timerPc = "idle"
    /\ due = 0
    /\ frameCount = 0
    /\ lateBy = 0

\* loadTracksFromDisk: ids 1..n in scan order; what the files may be
InitFiles(states) ==
    \E n \in 0..MaxTracks :
        /\ tracks = [i \in 1..n |-> i]
        /\ files \in [1..n -> states]

\* the fields of a StreamEngine and of a PlaylistManager once constructed
InitFields ==
    /\ clients = <<>>
    /\ sseClients = <<>>
    /\ isRunning = FALSE
    /\ nowPlaying = NoNowPlaying
    /\ conn = [c \in Listeners |-> "none"]
    /\ ended = [c \in Listeners |-> FALSE]
    /\ queued = [c \in Listeners |-> 0]
    /\ recv = [c \in Listeners |-> <<>>]
    /\ attachAt = [c \in Listeners |-> 0]
    /\ dropAt = [c \in Listeners |-> 0]
    /\ sconn = [s \in Subscribers |-> "none"]
    /\ sended = [s \in Subscribers |-> FALSE]
    /\ hb = [s \in Subscribers |-> FALSE]
    /\ srecv = [s \in Subscribers |-> <<>>]
    /\ subAt = [s \in Subscribers |-> 0]
    /\ beats = 0
    /\ pc = [l \in Loops |-> "idle"]
    /\ cur = [l \in Loops |-> NoTrack]
    /\ pos = [l \in Loops |-> 0]
    /\ stamp = [l \in Loops |-> 0]
    /\ openFds = 0
    /\ plSseClients = <<>>
    /\ plConn = [s \in Panels |-> "none"]
    /\ plEnded = [s \in Panels |-> FALSE]
    /\ plHb = [s \in Panels |-> FALSE]
    /\ plRecv = [s \in Panels |-> <<>>]
    /\ nextIndex = 0
    /\ playingIndex = 0
    /\ changes = <<>>
    /\ op = NoOp
    /\ log = <<>>
    /\ pubLog = <<>>
    /\ bcast = [NoCall EXCEPT !.n = 0] @@ [np |-> 0, unserved |-> {}]
    /\ mcast = NoCall
    /\ calls = 0

InitEngine == InitFields /\ InitFiles(FileStates)

\* no file is read byte by byte and no frame is paced against the clock
ParserIdle ==
    /\ ReaderIdle
    /\ bytes = <<>>
    /\ layout = NoLayout
    /\ now = 0
    /\ frameDurationMs = 0

Init == InitEngine /\ ParserIdle

\* ----------------------------------------------- the playlist's subscribers
\* the playlist subscribers of the set that are not ended
Writable == {s \in Range(plSseClients) : ~plEnded[s]}

\* the loop over this.sseClients of broadcastPlaylistUpdate and of
\* notifyTrackChange; thr: the subscribers whose write throws in this call
Push(msg, thr) ==
    LET r == FanOut(plSseClients, thr, plEnded) IN
    /\ plSseClients' = Live(r.entries)
    /\ plRecv' = [s \in Panels |-> plRecv[s] \o Times(msg, Count(r.writes, s))]
    /\ UNCHANGED <<plConn, plEnded, plHb>>

\* no subscriber in the set has been pushed MaxInbox messages
InboxRoom == \A s \in Range(plSseClients) : Len(plRecv[s]) < MaxInbox

\* ------------------------------------------------------- the producer loop
\* the track provider of server.ts: getNextTrack, then notifyTrackChange of
\* the track it returned; the caller is left awaiting the promise
CallProvider(l) ==
    LET g == GetNextTrack(tracks, nextIndex) IN
    /\ calls < MaxCalls
    /\ calls' = calls + 1
    /\ nextIndex' = g.nextIndex
    /\ cur' = [cur EXCEPT ![l] = g.track]
    /\ IF g.track # NoTrack
       THEN /\ playingIndex' = NotifyTrackChange(tracks, playingIndex, g.track)
            /\ changes' = Append(changes, [track |-> g.track, currentIndex |-> playingIndex'])
            /\ op' = Call("provider", <<>>, TRUE, g.track,
                          TrackChangeMsg(g.track, playingIndex'))
            /\ \E thr \in SUBSET Writable :
                  Push(TrackChangeMsg(g.track, playingIndex'), thr)
       ELSE /\ op' = Call("provider", <<>>, FALSE, NoTrack, NoMsg)
            /\ UNCHANGED <<playingIndex, changes, panelVars>>
    /\ pc' = [pc EXCEPT ![l] = "provider"]
    /\ UNCHANGED tracks

\* A bug: the outer loop does not look at the flag
LoopConditionTrue == TRUE

\* `while (this.isRunning)` of start()
LoopCondition == isRunning

\* A bug: the frame loop does not look at the flag
FrameConditionAnyFrame(hasFrame) == hasFrame

\* `while (frame && this.isRunning)` of streamTrack()
FrameCondition(hasFrame) == hasFrame /\ isRunning

\* the head of the loop of start(): leave, or ask for the next track
LoopHead(l) ==
    IF LoopCondition
    THEN CallProvider(l)
    ELSE /\ pc' = [pc EXCEPT ![l] = "done"]
         /\ UNCHANGED <<cur, playlistVars, panelVars, calls>>

\* start(getNextTrack): runs up to its first await
Start(l) ==
    /\ pc[l] = "idle"
    /\ \A k \in 1..(l - 1) : pc[k] # "idle"
    /\ isRunning' = TRUE
    /\ CallProvider(l)
    /\ UNCHANGED <<engineVars, listenerVars, subVars, pos, stamp, openFds,
                   parserVars>>

\* A bug: stop() also ends and forgets every connection
StopClosing ==
    /\ isRunning' = FALSE
    /\ clients' = <<>>
    /\ sseClients' = <<>>
    /\ UNCHANGED <<nowPlaying, recv, queued, dropAt, srecv, log, pubLog, bcast, mcast,
                   listenerVars, subVars, loopVars, playlistVars, parserVars, panelVars, calls>>

\* stop()
Stop ==
    /\ isRunning' = FALSE
    /\ UNCHANGED <<engineVars, listenerVars, subVars, loopVars, playlistVars, parserVars, panelVars, calls>>

\* the provider answered undefined: the 5 s wait begins
ProviderNone(l) ==
    /\ pc[l] = "provider"
    /\ cur[l] = NoTrack
    /\ pc' = [pc EXCEPT ![l] = "emptyWait"]
    /\ UNCHANGED <<engineVars, isRunning, listenerVars, subVars, cur, pos, stamp, openFds,
                   playlistVars, parserVars, panelVars, calls>>

\* A bug: no look at the disk: streamTrack is entered for a file that is not
\* there, and the open of its reader throws
ProviderMissingPublishes(l) ==
    /\ pc[l] = "provider"
    /\ cur[l] # NoTrack
    /\ files[cur[l]].kind = "missing"
    /\ Becomes(BroadcastMetadata(SetNowPlaying(Engine, cur[l]), {}))
    /\ pc' = [pc EXCEPT ![l] = "errWait"]
    /\ UNCHANGED <<isRunning, listenerVars, subVars, cur, pos, stamp, openFds,
                   playlistVars, parserVars, panelVars, calls>>

\* the provider answered a track whose file is not there: `continue`
ProviderMissing(l) ==
    /\ pc[l] = "provider"
    /\ cur[l] # NoTrack
    /\ files[cur[l]].kind = "missing"
    /\ LoopHead(l)
    /\ UNCHANGED <<engineVars, isRunning, listenerVars, subVars, pos, stamp, openFds,
                   parserVars>>

\* the provider answered a track whose file is there: streamTrack(track) up
\* to its first await, or to its end
ProviderStream(l) ==
    /\ pc[l] = "provider"
    /\ cur[l] # NoTrack
    /\ files[cur[l]].kind # "missing"
    /\ \E thrS \in SUBSET {s \in Range(sseClients) : ~sended[s]} :
       \E thrL \in SUBSET {c \in Range(clients) : ~ended[c]} :
          LET r == StreamTrackHead(Engine, cur[l], files[cur[l]],
                                   FrameCondition(TRUE), thrS, thrL)
          IN /\ Becomes(r.E)
             /\ pc' = [pc EXCEPT ![l] = r.next]
             /\ pos' = [pos EXCEPT ![l] = r.pos]
             /\ stamp' = [stamp EXCEPT ![l] = r.stamp]
             /\ openFds' = openFds + r.fds
    /\ UNCHANGED <<isRunning, listenerVars, subVars, cur, playlistVars, parserVars, panelVars, calls>>

\* fs.readSync throws in the readNextFrame() that follows `frames` good ones
ReadThrows(file, read) == file.kind = "readError" /\ read = file.frames

\* timer.wait() is over: the next frame is read and, if there is one and the
\* engine runs, broadcast (an exception out of readNextFrame or of broadcast
\* rejects streamTrack and lands in the catch of start(), the reader left
\* open); else the reader is closed and streamTrack returns
PaceResume(l) ==
    /\ pc[l] = "pace"
    /\ IF ReadThrows(files[cur[l]], pos[l])
       THEN /\ pc' = [pc EXCEPT ![l] = "errWait"]
            /\ UNCHANGED <<engineVars, pos, openFds>>
       ELSE IF FrameCondition(pos[l] < files[cur[l]].frames)
       THEN /\ \E thrL \in SUBSET {c \in Range(clients) : ~ended[c]} :
                  Becomes(Broadcast(Engine, Frame(cur[l], pos[l] + 1, stamp[l]), thrL))
            /\ pos' = [pos EXCEPT ![l] = pos[l] + 1]
            /\ pc' = [pc EXCEPT ![l] = IF bcast'.raised THEN "errWait" ELSE "pace"]
            /\ UNCHANGED openFds
       ELSE /\ pc' = [pc EXCEPT ![l] = "trackEnd"]
            /\ openFds' = openFds - 1
            /\ UNCHANGED <<engineVars, pos>>
    /\ UNCHANGED <<isRunning, listenerVars, subVars, cur, stamp, playlistVars, parserVars, panelVars, calls>>

\* `await this.streamTrack(track)` is over
TrackEndResume(l) ==
    /\ pc[l] = "trackEnd"
    /\ LoopHead(l)
    /\ UNCHANGED <<engineVars, isRunning, listenerVars, subVars, pos, stamp, openFds,
                   parserVars>>

\* A bug: after the 5 s wait the loop gives up instead of asking again
EmptyWaitGiveUp(l) ==
    /\ pc[l] = "emptyWait"
    /\ pc' = [pc EXCEPT ![l] = "done"]
    /\ UNCHANGED <<engineVars, isRunning, listenerVars, subVars, cur, pos, stamp, openFds,
                   playlistVars, parserVars, panelVars, calls>>

\* the 5 s wait is over: `continue`
EmptyWaitResume(l) ==
    /\ pc[l] = "emptyWait"
    /\ LoopHead(l)
    /\ UNCHANGED <<engineVars, isRunning, listenerVars, subVars, pos, stamp, openFds,
                   parserVars>>

\* A bug: a failed streamTrack ends the loop
ErrWaitGiveUp(l) ==
    /\ pc[l] = "errWait"
    /\ pc' = [pc EXCEPT ![l] = "done"]
    /\ UNCHANGED <<engineVars, isRunning, listenerVars, subVars, cur, pos, stamp, openFds,
                   playlistVars, parserVars, panelVars, calls>>

\* the 1 s back-off after a failed streamTrack is over
ErrWaitResume(l) ==
    /\ pc[l] = "errWait"
    /\ LoopHead(l)
    /\ UNCHANGED <<engineVars, isRunning, listenerVars, subVars, pos, stamp, openFds,
                   parserVars>>

LoopStep(l) ==
    \/ ProviderNone(l)
    \/ ProviderMissing(l)
    \/ ProviderStream(l)
    \/ PaceResume(l)
    \/ TrackEndResume(l)
    \/ EmptyWaitResume(l)
    \/ ErrWaitResume(l)

\* ------------------------------------------------------------- connections
\* A bug: a new listener is first sent the frame broadcast last (a burst on
\* connect)
AddClientReplaying(c) ==
    /\ conn[c] = "none"
    /\ \A k \in 1..(c - 1) : conn[k] # "none"
    /\ clients' = SetAdd(clients, c)
    /\ conn' = [conn EXCEPT ![c] = "open"]
    /\ attachAt' = [attachAt EXCEPT ![c] = Len(log)]
    /\ recv' = [recv EXCEPT ![c] = IF log # <<>> THEN <<log[Len(log)]>> ELSE <<>>]
    /\ UNCHANGED <<sseClients, nowPlaying, queued, dropAt, srecv, log, pubLog,
                   bcast, mcast, isRunning, ended, subVars, loopVars, playlistVars,
                   parserVars, panelVars, calls>>

\* GET /stream: addClient(res)
AddClient(c) ==
    /\ conn[c] = "none"
    /\ \A k \in 1..(c - 1) : conn[k] # "none"
    /\ clients' = SetAdd(clients, c)
    /\ conn' = [conn EXCEPT ![c] = "open"]
    /\ attachAt' = [attachAt EXCEPT ![c] = Len(log)]
    /\ UNCHANGED <<sseClients, nowPlaying, recv, queued, dropAt, srecv, log, pubLog,
                   bcast, mcast, isRunning, ended, subVars, loopVars, playlistVars,
                   parserVars, panelVars, calls>>

\* the 'close' event of an audio connection; the connection is gone, and
\* what is remembered of it is dropped with it
ClientClose(c) ==
    /\ conn[c] = "open"
    /\ clients' = SetDelete(clients, c)
    /\ conn' = [conn EXCEPT ![c] = "closed"]
    /\ ended' = [ended EXCEPT ![c] = FALSE]
    /\ queued' = [queued EXCEPT ![c] = 0]
    /\ recv' = [recv EXCEPT ![c] = <<>>]
    /\ attachAt' = [attachAt EXCEPT ![c] = 0]
    /\ dropAt' = [dropAt EXCEPT ![c] = 0]
    /\ UNCHANGED <<sseClients, nowPlaying, srecv, log, pubLog, bcast, mcast, isRunning,
                   subVars, loopVars, playlistVars, parserVars, panelVars, calls>>

\* the 'error' event of an audio connection
ClientError(c) ==
    /\ conn[c] = "open"
    /\ c \in Range(clients)
    /\ clients' = SetDelete(clients, c)
    /\ UNCHANGED <<sseClients, nowPlaying, recv, queued, dropAt, srecv, log, pubLog,
                   bcast, mcast, isRunning, listenerVars, subVars, loopVars,
                   playlistVars, parserVars, panelVars, calls>>

\* the response of an audio connection is ended: writableEnded turns true
ClientEnd(c) ==
    /\ conn[c] = "open"
    /\ ~ended[c]
    /\ ended' = [ended EXCEPT ![c] = TRUE]
    /\ UNCHANGED <<engineVars, isRunning, conn, attachAt, subVars, loopVars,
                   playlistVars, parserVars, panelVars, calls>>

\* the socket of an audio connection takes what was written to it
Drain(c) ==
    /\ conn[c] = "open"
    /\ queued[c] > 0
    /\ queued' = [queued EXCEPT ![c] = 0]
    /\ UNCHANGED <<clients, sseClients, nowPlaying, recv, dropAt, srecv, log, pubLog,
                   bcast, mcast, isRunning, listenerVars, subVars, loopVars,
                   playlistVars, parserVars, panelVars, calls>>

\* A bug: a new subscriber is not sent the current snapshot
AddSSEClientSilent(s) ==
    /\ sconn[s] = "none"
    /\ \A k \in 1..(s - 1) : sconn[k] # "none"
    /\ sseClients' = SetAdd(sseClients, s)
    /\ hb' = [hb EXCEPT ![s] = TRUE]
    /\ sconn' = [sconn EXCEPT ![s] = "open"]
    /\ subAt' = [subAt EXCEPT ![s] = Len(pubLog)]
    /\ UNCHANGED <<clients, nowPlaying, recv, queued, dropAt, srecv, log, pubLog, bcast,
                   mcast, isRunning, listenerVars, sended, beats, loopVars, playlistVars,
                   parserVars, panelVars, calls>>

\* GET /now-playing/events: addSSEClient(res)
AddSSEClient(s) ==
    /\ sconn[s] = "none"
    /\ \A k \in 1..(s - 1) : sconn[k] # "none"
    /\ sseClients' = SetAdd(sseClients, s)
    /\ srecv' = [srecv EXCEPT ![s] =
                   IF nowPlaying # NoNowPlaying THEN Append(@, DataMsg(nowPlaying)) ELSE @]
    /\ hb' = [hb EXCEPT ![s] = TRUE]
    /\ sconn' = [sconn EXCEPT ![s] = "open"]
    /\ subAt' = [subAt EXCEPT ![s] = Len(pubLog)]
    /\ UNCHANGED <<clients, nowPlaying, recv, queued, dropAt, log, pubLog, bcast, mcast,
                   isRunning, listenerVars, sended, beats, loopVars, playlistVars,
                   parserVars, panelVars, calls>>

\* the 'close' event of a subscriber: clearInterval, delete; the connection
\* is gone, and what is remembered of it is dropped with it
SSEClose(s) ==
    /\ sconn[s] = "open"
    /\ hb' = [hb EXCEPT ![s] = FALSE]
    /\ sseClients' = SetDelete(sseClients, s)
    /\ sconn' = [sconn EXCEPT ![s] = "closed"]
    /\ sended' = [sended EXCEPT ![s] = FALSE]
    /\ srecv' = [srecv EXCEPT ![s] = <<>>]
    /\ subAt' = [subAt EXCEPT ![s] = 0]
    /\ UNCHANGED <<clients, nowPlaying, recv, queued, dropAt, log, pubLog, bcast,
                   mcast, isRunning, listenerVars, beats, loopVars,
                   playlistVars, parserVars, panelVars, calls>>

\* the response of a subscriber is ended
SSEEnd(s) ==
    /\ sconn[s] = "open"
    /\ ~sended[s]
    /\ sended' = [sended EXCEPT ![s] = TRUE]
    /\ UNCHANGED <<engineVars, isRunning, listenerVars, sconn, hb, subAt, beats,
                   loopVars, playlistVars, parserVars, panelVars, calls>>

\* A bug: the tick writes without a look at writableEnded
HeartbeatToEnded(s) ==
    /\ hb[s]
    /\ beats < MaxBeats
    /\ beats' = beats + 1
    /\ srecv' = [srecv EXCEPT ![s] = Append(@, HeartbeatMsg)]
    /\ UNCHANGED <<clients, sseClients, nowPlaying, recv, queued, dropAt, log, pubLog,
                   bcast, mcast, isRunning, listenerVars, sconn, sended, hb, subAt,
                   loopVars, playlistVars, parserVars, panelVars, calls>>

\* a tick of the 30 s interval of a subscriber
Heartbeat(s) ==
    /\ hb[s]
    /\ beats < MaxBeats
    /\ beats' = beats + 1
    /\ srecv' = [srecv EXCEPT ![s] = IF ~sended[s] THEN Append(@, HeartbeatMsg) ELSE @]
    /\ UNCHANGED <<clients, sseClients, nowPlaying, recv, queued, dropAt, log, pubLog,
                   bcast, mcast, isRunning, listenerVars, sconn, sended, hb, subAt,
                   loopVars, playlistVars, parserVars, panelVars, calls>>

\* ------------------------------------------------- the playlist's callers
\* everything but the playlist
restVars == <<engineVars, isRunning, listenerVars, subVars, loopVars, parserVars, calls>>

\* getNextTrack() called on its own
GetNextTrackCall ==
    LET g == GetNextTrack(tracks, nextIndex) IN
    /\ nextIndex' = g.nextIndex
    /\ op' = Call("getNextTrack", <<>>, g.track # NoTrack, g.track, NoMsg)
    /\ UNCHANGED <<tracks, playingIndex, changes, panelVars, restVars>>

\* A bug: telling the manager of a track change also moves the production
\* cursor to the track told
NotifyTrackChangeCallMovingNext(id) ==
    /\ Len(changes) < MaxNotifies
    /\ InboxRoom
    /\ playingIndex' = NotifyTrackChange(tracks, playingIndex, id)
    /\ nextIndex' = playingIndex'
    /\ changes' = Append(changes, [track |-> id, currentIndex |-> playingIndex'])
    /\ op' = Call("notifyTrackChange", <<>>, TRUE, id, TrackChangeMsg(id, playingIndex'))
    /\ \E thr \in SUBSET Writable : Push(TrackChangeMsg(id, playingIndex'), thr)
    /\ UNCHANGED <<tracks, restVars>>

\* notifyTrackChange(track) called on its own, with any track
NotifyTrackChangeCall(id) ==
    /\ Len(changes) < MaxNotifies
    /\ InboxRoom
    /\ playingIndex' = NotifyTrackChange(tracks, playingIndex, id)
    /\ changes' = Append(changes, [track |-> id, currentIndex |-> playingIndex'])
    /\ op' = Call("notifyTrackChange", <<>>, TRUE, id, TrackChangeMsg(id, playingIndex'))
    /\ \E thr \in SUBSET Writable : Push(TrackChangeMsg(id, playingIndex'), thr)
    /\ UNCHANGED <<tracks, nextIndex, restVars>>

\* the provider of server.ts called by a producer loop
ProviderCall ==
    /\ CallProvider(1)
    /\ UNCHANGED <<engineVars, isRunning, listenerVars, subVars, pos, stamp, openFds,
                   parserVars>>

\* reorderTracks(ids), with broadcastPlaylistUpdate when it is accepted
Reorder(ids) ==
    LET r == ReorderTracks(tracks, nextIndex, playingIndex, ids) IN
    /\ InboxRoom
    /\ tracks' = r.tracks
    /\ nextIndex' = r.nextIndex
    /\ playingIndex' = r.playingIndex
    /\ op' = Call("reorderTracks", ids, r.ok, NoTrack,
                  IF r.ok THEN PlaylistMsg(r.tracks, r.playingIndex) ELSE NoMsg)
    /\ IF r.ok
       THEN \E thr \in SUBSET Writable : Push(PlaylistMsg(r.tracks, r.playingIndex), thr)
       ELSE UNCHANGED panelVars
    /\ UNCHANGED <<changes, restVars>>

\* A bug: reload() rescans and leaves the cursors where they were
ReloadKeepingCursors ==
    /\ tracks' = LoadTracksFromDisk
    /\ op' = Call("reload", <<>>, TRUE, NoTrack, PlaylistMsg(tracks', playingIndex))
    /\ \E thr \in SUBSET Writable : Push(PlaylistMsg(tracks', playingIndex), thr)
    /\ UNCHANGED <<nextIndex, playingIndex, changes, restVars>>

\* reload(): loadTracksFromDisk, both cursors 0, broadcastPlaylistUpdate
Reload ==
    /\ InboxRoom
    /\ tracks' = LoadTracksFromDisk
    /\ nextIndex' = 0
    /\ playingIndex' = 0
    /\ op' = Call("reload", <<>>, TRUE, NoTrack, PlaylistMsg(tracks', 0))
    /\ \E thr \in SUBSET Writable : Push(PlaylistMsg(tracks', 0), thr)
    /\ UNCHANGED <<changes, restVars>>

\* A bug: a new playlist subscriber is sent nothing until the next push
AddPlaylistClientSilent(s) ==
    /\ plConn[s] = "none"
    /\ \A k \in 1..(s - 1) : plConn[k] # "none"
    /\ plSseClients' = SetAdd(plSseClients, s)
    /\ plHb' = [plHb EXCEPT ![s] = TRUE]
    /\ plConn' = [plConn EXCEPT ![s] = "open"]
    /\ op' = Call("addSSEClient", <<>>, TRUE, NoTrack, NoMsg)
    /\ UNCHANGED <<plEnded, plRecv, tracks, nextIndex, playingIndex, changes, restVars>>

\* GET /api/playlist/events: addSSEClient(res) of the PlaylistManager, with
\* sendPlaylistState
AddPlaylistClient(s) ==
    /\ plConn[s] = "none"
    /\ \A k \in 1..(s - 1) : plConn[k] # "none"
    /\ plSseClients' = SetAdd(plSseClients, s)
    /\ plRecv' = [plRecv EXCEPT ![s] = Append(@, PlaylistMsg(tracks, playingIndex))]
    /\ plHb' = [plHb EXCEPT ![s] = TRUE]
    /\ plConn' = [plConn EXCEPT ![s] = "open"]
    /\ op' = Call("addSSEClient", <<>>, TRUE, NoTrack, PlaylistMsg(tracks, playingIndex))
    /\ UNCHANGED <<plEnded, tracks, nextIndex, playingIndex, changes, restVars>>

\* the 'close' event of a playlist subscriber: clearInterval, delete; the
\* connection is gone, and what is remembered of it is dropped with it
PlaylistClientClose(s) ==
    /\ plConn[s] = "open"
    /\ plHb' = [plHb EXCEPT ![s] = FALSE]
    /\ plSseClients' = SetDelete(plSseClients, s)
    /\ plConn' = [plConn EXCEPT ![s] = "closed"]
    /\ plEnded' = [plEnded EXCEPT ![s] = FALSE]
    /\ plRecv' = [plRecv EXCEPT ![s] = <<>>]
    /\ op' = Call("close", <<>>, TRUE, NoTrack, NoMsg)
    /\ UNCHANGED <<tracks, nextIndex, playingIndex, changes, restVars>>

\* the response of a playlist subscriber is ended
PlaylistClientEnd(s) ==
    /\ plConn[s] = "open"
    /\ ~plEnded[s]
    /\ plEnded' = [plEnded EXCEPT ![s] = TRUE]
    /\ op' = Call("end", <<>>, TRUE, NoTrack, NoMsg)
    /\ UNCHANGED <<plSseClients, plConn, plHb, plRecv, tracks, nextIndex, playingIndex,
                   changes, restVars>>

\* `: heartbeat\n\n` written to a playlist subscriber
PlaylistBeatMsg ==
    [type |-> "heartbeat", tracks |-> <<>>, track |-> NoTrack, currentIndex |-> 0]

\* a tick of the 30 s interval of a playlist subscriber
PlaylistHeartbeat(s) ==
    /\ plHb[s]
    /\ beats < MaxBeats
    /\ beats' = beats + 1
    /\ plRecv' = [plRecv EXCEPT ![s] = IF ~plEnded[s] THEN Append(@, PlaylistBeatMsg) ELSE @]
    /\ UNCHANGED <<plSseClients, plConn, plEnded, plHb>>
    /\ UNCHANGED <<engineVars, isRunning, listenerVars, sconn, sended, hb, subAt,
                   loopVars, playlistVars, parserVars, calls>>

\* --------------------------------------------------------- specifications
\* the whole engine: any number of start() and stop() calls, every event of
\* every connection
Next ==
    \/ \E l \in Loops : Start(l)
    \/ Stop
    \/ \E l \in Loops : LoopStep(l)
    \/ \E c \in Listeners : AddClient(c)
    \/ \E c \in Listeners : ClientClose(c)
    \/ \E c \in Listeners : ClientError(c)
    \/ \E c \in Listeners : ClientEnd(c)
    \/ \E c \in Listeners : Drain(c)
    \/ \E s \in Subscribers : AddSSEClient(s)
    \/ \E s \in Subscribers : SSEClose(s)
    \/ \E s \in Subscribers : SSEEnd(s)
    \/ \E s \in Subscribers : Heartbeat(s)

Spec == Init /\ [][Next]_vars

\* start() and stop() called in any order, with connections that come and go
NextLife ==
    \/ \E l \in Loops : Start(l)
    \/ Stop
    \/ \E l \in Loops : LoopStep(l)
    \/ \E c \in 1..LifeSinks : AddClient(c)
    \/ \E c \in 1..LifeSinks : ClientClose(c)
    \/ \E s \in 1..LifeSinks : AddSSEClient(s)
    \/ \E s \in 1..LifeSinks : SSEClose(s)

SpecLife == Init /\ [][NextLife]_vars

\* the producer loops alone, each step of a started loop taken in the end:
\* timers fire, promises settle
NextLive ==
    \/ \E l \in Loops : Start(l)
    \/ Stop
    \/ \E l \in Loops : LoopStep(l)

LiveSpec == Init /\ [][NextLive]_vars /\ \A l \in Loops : WF_vars(LoopStep(l))

\* server.ts: start() is called once; the producer loop alone, each of its
\* steps taken in the end
NextProducer ==
    \/ Start(1)
    \/ Stop
    \/ LoopStep(1)

SpecProducer == Init /\ [][NextProducer]_vars /\ WF_vars(LoopStep(1))

\* server.ts: start() is called once; files of every kind, and a listener
InitTracks ==
    /\ InitFields
    /\ InitFiles(TrackFiles)
    /\ ParserIdle

NextTracks ==
    \/ Start(1)
    \/ Stop
    \/ LoopStep(1)
    \/ \E c \in 1..LifeSinks : AddClient(c)
    \/ \E c \in 1..LifeSinks : ClientClose(c)

SpecTracks == InitTracks /\ [][NextTracks]_vars

\* server.ts: start() is called once; the audio listeners and all their events
NextAudio ==
    \/ Start(1)
    \/ Stop
    \/ LoopStep(1)
    \/ \E c \in Listeners : AddClient(c)
    \/ \E c \in Listeners : ClientClose(c)
    \/ \E c \in Listeners : ClientError(c)
    \/ \E c \in Listeners : ClientEnd(c)

SpecAudio == Init /\ [][NextAudio]_vars

\* server.ts: start() is called once; listeners that never read
NextQueue ==
    \/ Start(1)
    \/ Stop
    \/ LoopStep(1)
    \/ \E c \in Listeners : AddClient(c)
    \/ \E c \in Listeners : ClientClose(c)
    \/ \E c \in Listeners : Drain(c)

SpecQueue == Init /\ [][NextQueue]_vars

\* server.ts: start() is called once; the subscribers and all their events
NextMeta ==
    \/ Start(1)
    \/ Stop
    \/ LoopStep(1)
    \/ \E s \in Subscribers : AddSSEClient(s)
    \/ \E s \in Subscribers : SSEClose(s)
    \/ \E s \in Subscribers : SSEEnd(s)
    \/ \E s \in Subscribers : Heartbeat(s)

SpecMeta == Init /\ [][NextMeta]_vars

\* server.ts: start() is called once; sinks of both kinds that arrive and fail
NextFan ==
    \/ Start(1)
    \/ LoopStep(1)
    \/ \E c \in Listeners : AddClient(c)
    \/ \E c \in Listeners : ClientEnd(c)
    \/ \E s \in Subscribers : AddSSEClient(s)

SpecFan == Init /\ [][NextFan]_vars

\* the PlaylistManager alone, called in any order with any arguments; what
\* the files hold does not matter to it
InitPlaylist ==
    /\ Init
    /\ \A t \in DOMAIN files : files[t] = [kind |-> "ok", frames |-> MaxFrames]

NextPlaylist ==
    \/ GetNextTrackCall
    \/ \E id \in TrackIds : NotifyTrackChangeCall(id)
    \/ \E ids \in IdLists : Reorder(ids)
    \/ Reload

SpecPlaylist == InitPlaylist /\ [][NextPlaylist]_vars

\* the PlaylistManager with its subscribers: they come, end and go between
\* reorders and reloads
NextPanel ==
    \/ \E s \in Panels : AddPlaylistClient(s)
    \/ \E s \in Panels : PlaylistClientClose(s)
    \/ \E s \in Panels : PlaylistClientEnd(s)
    \/ \E ids \in {l \in IdLists : Len(l) <= MaxTracks} : Reorder(ids)
    \/ Reload

SpecPanel == InitPlaylist /\ [][NextPanel]_vars

\* the PlaylistManager told of track changes, with any id, while subscribers
\* come and end and the list is reordered
NextNotify ==
    \/ \E s \in Panels : AddPlaylistClient(s)
    \/ \E s \in Panels : PlaylistClientEnd(s)
    \/ \E id \in TrackIds : NotifyTrackChangeCall(id)
    \/ \E ids \in {l \in IdLists : Len(l) = Len(tracks)} : Reorder(ids)

SpecNotify == InitPlaylist /\ [][NextNotify]_vars

\* the subscribers of both managers with their intervals, and nothing else
NextBeat ==
    \/ \E s \in Subscribers : AddSSEClient(s)
    \/ \E s \in Subscribers : SSEClose(s)
    \/ \E s \in Subscribers : SSEEnd(s)
    \/ \E s \in Subscribers : Heartbeat(s)
    \/ \E s \in Panels : AddPlaylistClient(s)
    \/ \E s \in Panels : PlaylistClientClose(s)
    \/ \E s \in Panels : PlaylistClientEnd(s)
    \/ \E s \in Panels : PlaylistHeartbeat(s)

SpecBeat == InitPlaylist /\ [][NextBeat]_vars

\* server.ts: start() is called once, and the playlist is reordered while
\* the producer plays it; no reload
NextAgree ==
    \/ Start(1)
    \/ Stop
    \/ LoopStep(1)
    \/ \E ids \in {l \in IdLists : Len(l) = Len(tracks)} : Reorder(ids)

SpecAgree == Init /\ [][NextAgree]_vars

\* the provider of server.ts called again and again, with reorders and
\* reloads in between
NextProvider ==
    \/ ProviderCall
    \/ \E ids \in IdLists : Reorder(ids)
    \/ Reload

SpecProvider == InitPlaylist /\ [][NextProvider]_vars

(***************************************************************************)
(* PreciseTimer, and the frames streamTrack paces with it.  Times are      *)
(* whole microseconds: the code's milliseconds are floating point numbers  *)
(* and process.hrtime counts nanoseconds.                                  *)
(***************************************************************************)

\* one millisecond
MsUs == 1000

\* the most frames one track is paced for
MaxPaced == 100

\* the latest a setTimeout callback runs after the time wait() aims at
MaxLate == 30000

\* how long after the time wait() aims at a late setTimeout callback runs
Lateness == {4 * MsUs, MaxLate}

\* a setTimeout callback runs when the event loop gets to it: up to a
\* millisecond before it is due by the clock (the loop's cached time), when
\* it is due, or late
WakeTimes ==
    {due - MsUs, due} \cup {startTime + elapsedTargetMs + late : late \in Lateness}

\* what reading a frame and writing it to the listeners takes
WorkTimes == {0, MsUs \div 2}

\* how far past the deadline the spin loop's last look at the clock is
SpinGrain == {0, 1}

\* header.frameDurationMs of the frames of a file: one file, one sample rate
FrameDurations ==
    {ParseFrameHeader(hd.bytes).frameDurationUs : hd \in Headers}

\* addTime interpreted as the deadline of the frame that follows
AddTimeTwice(target, ms) == target + 2 * ms

AddTime(target, ms) == target + ms

\* getDelayMs that lets go two milliseconds before the target
GetDelayMsShort(target, elapsed) == Larger(0, target - elapsed - 2 * MsUs)

GetDelayMs(target, elapsed) == Larger(0, target - elapsed)

\* what setTimeout(resolve, delay - 1) sleeps: whole milliseconds, at least one
SetTimeoutUs(delay) ==
    LET ms == (delay - MsUs) \div MsUs
    IN  IF ms < 1 THEN MsUs ELSE ms * MsUs

\* process.hrtime.bigint() - startTime
ActualElapsed == now - startTime

\* new PreciseTimer(), and the first frame read
NewTimer(d) ==
    /\ timerPc = "idle"
    /\ startTime' = now
    /\ elapsedTargetMs' = 0
    /\ frameDurationMs' = d
    /\ frameCount' = 0
    /\ lateBy' = 0
    /\ timerPc' = "ready"
    /\ UNCHANGED <<now, due>>
    /\ UNCHANGED <<engineVars, isRunning, listenerVars, subVars, loopVars,
                   playlistVars, panelVars, files, readerVars, calls>>

\* the loop body of streamTrack up to the await inside wait(): the frame is
\* broadcast, its duration is added, and wait() sleeps or goes to spin
PaceFrame ==
    /\ timerPc = "ready"
    /\ frameCount < MaxPaced
    /\ \E w \in WorkTimes :
          LET at     == now + w
              target == AddTime(elapsedTargetMs, frameDurationMs)
              delay  == GetDelayMs(target, at - startTime)
          IN  /\ now' = at
              /\ elapsedTargetMs' = target
              /\ lateBy' = ActualElapsed - elapsedTargetMs
              /\ IF delay > MsUs
                    THEN /\ timerPc' = "sleep"
                         /\ due' = at + SetTimeoutUs(delay)
                    ELSE /\ timerPc' = "spin"
                         /\ due' = due
    /\ UNCHANGED <<startTime, frameDurationMs, frameCount>>
    /\ UNCHANGED <<engineVars, isRunning, listenerVars, subVars, loopVars,
                   playlistVars, panelVars, files, readerVars, calls>>

\* the setTimeout callback of wait() runs
TimeoutFires ==
    /\ timerPc = "sleep"
    /\ \E wake \in WakeTimes : now' = Larger(now, wake)
    /\ timerPc' = "spin"
    /\ UNCHANGED <<startTime, elapsedTargetMs, due, frameDurationMs, frameCount,
                   lateBy>>
    /\ UNCHANGED <<engineVars, isRunning, listenerVars, subVars, loopVars,
                   playlistVars, panelVars, files, readerVars, calls>>

\* the spin loop of wait() sees no delay left; the next frame is read and
\* counted
SpinEnds ==
    /\ timerPc = "spin"
    /\ \E g \in SpinGrain :
          now' = now + GetDelayMs(elapsedTargetMs, ActualElapsed) + g
    /\ frameCount' = frameCount + 1
    /\ timerPc' = "ready"
    /\ UNCHANGED <<startTime, elapsedTargetMs, due, frameDurationMs, lateBy>>
    /\ UNCHANGED <<engineVars, isRunning, listenerVars, subVars, loopVars,
                   playlistVars, panelVars, files, readerVars, calls>>


\* a frame reader on one file, the engine left alone
InitReader ==
    /\ InitEngine
    /\ tracks = <<>>
    /\ ReaderIdle
    /\ layout \in Layouts
    /\ bytes = BytesOf(layout)
    /\ now = 0
    /\ frameDurationMs = 0

NextReader ==
    \/ ReaderOpen
    \/ ReaderRead
    \/ ReaderClose

SpecReader == InitReader /\ [][NextReader]_vars

\* a reader that is also reset, at any point
NextReset ==
    \/ NextReader
    \/ ReaderReset

SpecReset == InitReader /\ [][NextReset]_vars

\* one track's frames paced against the clock; the clock reads anything when
\* the timer is made
InitTimer ==
    /\ InitEngine
    /\ tracks = <<>>
    /\ ReaderIdle
    /\ bytes = <<>>
    /\ layout = NoLayout
    /\ now \in {0, 7 * MsUs + 3}
    /\ frameDurationMs = 0

NextTimer ==
    \/ \E d \in FrameDurations : NewTimer(d)
    \/ PaceFrame
    \/ TimeoutFires
    \/ SpinEnds

SpecTimer == InitTimer /\ [][NextTimer]_vars

\* a frame reader on one file of frames of any MPEG version
InitVersions ==
    /\ InitEngine
    /\ tracks = <<>>
    /\ ReaderIdle
    /\ layout \in VersionLayouts
    /\ bytes = BytesOf(layout)
    /\ now = 0
    /\ frameDurationMs = 0

SpecVersions == InitVersions /\ [][NextReader]_vars

\* a frame reader on one file that opens with ten bytes of tag or near-tag
InitTag ==
    /\ InitEngine
    /\ tracks = <<>>
    /\ ReaderIdle
    /\ layout \in TagLayouts
    /\ bytes = BytesOf(layout)
    /\ now = 0
    /\ frameDurationMs = 0

SpecTag == InitTag /\ [][NextReader]_vars

\* files that end inside their last frame: a file of frames without its last
\* 1, 60 or 93 bytes, and the whole file
Cuts == {0, 1, 60, 93}
CutLayouts ==
    [tag : {<<>>},
     parts : UNION {[1..n -> [garbage : {<<>>}, header : Headers]] : n \in 1..MaxFileFrames},
     trail : {<<>>}]

\* a reader made on a file that ends inside its last frame
InitCut ==
    /\ InitEngine
    /\ tracks = <<>>
    /\ ReaderIdle
    /\ layout \in CutLayouts
    /\ \E c \in Cuts : bytes = SubSeq(BytesOf(layout), 1, Len(BytesOf(layout)) - c)
    /\ now = 0
    /\ frameDurationMs = 0

SpecCut == InitCut /\ [][NextReader]_vars

\* a reader made on a file with long runs of bytes that are no frame
InitGarbage ==
    /\ InitEngine
    /\ tracks = <<>>
    /\ ReaderIdle
    /\ layout \in GarbageLayouts
    /\ bytes = BytesOf(layout)
    /\ now = 0
    /\ frameDurationMs = 0

SpecGarbage == InitGarbage /\ [][NextReader]_vars

\* ------------------------------------------------------------------ claims
Active == {l \in Loops : pc[l] \notin {"idle", "done"}}

\* the data messages a subscriber was written, heartbeats left out
Data(s) == SelectSeq(srecv[s], LAMBDA m : m.kind = "data")

\* C1: what a listener was written is exactly the frames passed to
\* broadcast() since its addClient, in order, without gap or duplicate, and
\* nothing broadcast before; while it is in the set it has them all
C1_ListenerWindow ==
    \A c \in Listeners :
        /\ attachAt[c] + Len(recv[c]) <= Len(log)
        /\ recv[c] = SubSeq(log, attachAt[c] + 1, attachAt[c] + Len(recv[c]))
        /\ c \in Range(clients) => attachAt[c] + Len(recv[c]) = Len(log)

\* C1, its case: two listeners attached at different frames, both written
\* frames over a common interval
C1_Witness ==
    /\ conn[1] = "open" /\ conn[2] = "open"
    /\ attachAt[1] < attachAt[2]
    /\ Len(recv[2]) >= 2
    /\ Len(recv[1]) > Len(recv[2])

\* C2 (as claimed): at most one producer loop is active
C2_OneProducer == Cardinality(Active) <= 1

\* C3 (as claimed): while the flag stays false, nowPlaying is not replaced
\* and neither a snapshot nor a trackChange is emitted
C3_NoTrackAfterStop ==
    [][(~isRunning /\ ~isRunning') =>
          (nowPlaying' = nowPlaying /\ pubLog' = pubLog /\ changes' = changes)]_vars

\* C4: when the flag is false, every active loop exits, unless start() is
\* called again
C4_LoopExits ==
    (Active # {} /\ ~isRunning) ~> (Active = {} \/ isRunning)

\* C4, its case: stop() arrived while a loop was pacing a frame, and the loop
\* is over
C4_Witness ==
    /\ ~isRunning
    /\ pc[1] = "done"
    /\ log # <<>>
    /\ cur[1] # NoTrack
    /\ pos[1] < files[cur[1]].frames

\* C5: the step that turns the flag off changes no set, no connection and
\* not the snapshot
C5_StopFrame ==
    [][(isRunning /\ ~isRunning') =>
          UNCHANGED <<clients, sseClients, nowPlaying, conn, ended, sconn, sended, hb,
                      recv, srecv>>]_vars

\* C5, its case: the engine is stopped with a listener and a subscriber
\* attached and a snapshot retained
C5_Witness ==
    /\ ~isRunning
    /\ pc[1] # "idle"
    /\ clients # <<>>
    /\ sseClients # <<>>
    /\ nowPlaying # NoNowPlaying

\* C6: a listener that a broadcast call saw fail or ended is out of the set,
\* and was written no frame of that call or of a later one
C6_FailedListenerGone ==
    \A c \in Listeners :
        dropAt[c] # 0 =>
            /\ c \notin Range(clients)
            /\ attachAt[c] + Len(recv[c]) < dropAt[c]

\* C6, its case: a listener failed in a broadcast call, its connection is
\* still open, and a later frame was broadcast
C6_Witness ==
    \E c \in Listeners :
        /\ dropAt[c] # 0
        /\ conn[c] = "open"
        /\ Len(log) > dropAt[c]
        /\ Len(recv[c]) >= 1

\* C7: in every broadcast and broadcastMetadata call each sink of the set
\* that is open and whose write does not throw is written exactly once, the
\* others not at all, nothing is raised, and the producer reaches its error
\* back-off only for a file that failed
C7_FanOutIsolated ==
    /\ ~bcast.raised
    /\ ~mcast.raised
    /\ \A c \in Listeners :
          Count(bcast.writes, c) = IF c \in bcast.members \ bcast.bad THEN 1 ELSE 0
    /\ \A s \in Subscribers :
          Count(mcast.writes, s) = IF s \in mcast.members \ mcast.bad THEN 1 ELSE 0
    /\ \A l \in Loops : pc[l] = "errWait" => files[cur[l]].kind = "bad"

\* C7, its case: the last call of each kind had a sink that failed and
\* another that was written, and the producer is pacing
C7_Witness ==
    /\ bcast.bad # {} /\ bcast.writes # <<>>
    /\ mcast.bad # {} /\ mcast.writes # <<>>
    /\ \E c \in bcast.bad : \E d \in Range(bcast.writes) : c < d
    /\ \E c \in mcast.bad : \E d \in Range(mcast.writes) : c < d
    /\ pc[1] = "pace"

\* C8 (as claimed): no listener of the set has more than the bound queued
C8_SlowListenerDropped ==
    \A c \in Range(clients) : queued[c] <= SendQueueBound

\* C9: an open subscriber attached after snapshot number k > 0 was written
\* that snapshot first and then the following ones in order; one attached
\* before any snapshot was written nothing on attach and then the snapshots in
\* order; while it is in the set it has them all; and while a track is paced,
\* the retained snapshot is that track's
C9_SubscriberMessages ==
    /\ \A s \in Subscribers :
          sconn[s] = "open" =>
             LET d == Data(s)
                 from == IF subAt[s] = 0 THEN 1 ELSE subAt[s]
             IN /\ from + Len(d) - 1 <= Len(pubLog)
                /\ d = [j \in 1..Len(d) |-> DataMsg(pubLog[from + j - 1])]
                /\ subAt[s] > 0 => (srecv[s] # <<>> /\ srecv[s][1] = DataMsg(pubLog[subAt[s]]))
                /\ s \in Range(sseClients) => from + Len(d) - 1 = Len(pubLog)
    /\ \A l \in Loops :
          pc[l] = "pace" => nowPlaying = [track |-> cur[l], startedAt |-> stamp[l]]

\* C9, its cases: a subscriber attached before any track has been written
\* the first snapshot; another, attached while the first track was paced, has
\* been written that track's snapshot, a heartbeat, and the next track's
C9_Witness ==
    /\ \E s \in Subscribers :
          /\ sconn[s] = "open"
          /\ subAt[s] = 0
          /\ Len(Data(s)) >= 1
    /\ \E s \in Subscribers :
          /\ sconn[s] = "open"
          /\ subAt[s] = 1
          /\ Len(srecv[s]) = 3
          /\ srecv[s][1].startedAt = 1
          /\ srecv[s][2].kind = "heartbeat"
          /\ srecv[s][3].startedAt = 2
          /\ Len(log) >= 1 /\ log[1].stamp = 1

\* C10: when a frame is broadcast, the snapshot of its track has been
\* published, the retained snapshot is that one or a later one, never an
\* earlier one, and every subscriber of the set attached before it was
\* published has been written it
C10_SnapshotBeforeAudio ==
    log # <<>> =>
        LET f == log[Len(log)] IN
        /\ bcast.n = Len(log)
        /\ f.stamp <= Len(pubLog)
        /\ pubLog[f.stamp].track = f.track
        /\ bcast.np >= f.stamp
        /\ bcast.unserved = {}

\* C10, its case: the first frame of the second track went out to a listener
\* with a subscriber attached since the first track
C10_Witness ==
    /\ log # <<>>
    /\ log[Len(log)].stamp = 2
    /\ log[Len(log)].idx = 1
    /\ bcast.writes # <<>>
    /\ \E s \in Range(sseClients) : subAt[s] <= 1 /\ Len(Data(s)) >= 2

\* the i-th frame broadcast when two good files are played in playlist order,
\* the k-th streamTrack call being stamped k
PlayedFrame(i) ==
    LET f1 == files[tracks[1]].frames
        f2 == files[tracks[2]].frames
        c == (i - 1) \div (f1 + f2)
        r == (i - 1) % (f1 + f2)
    IN IF r < f1
       THEN Frame(tracks[1], r + 1, 2 * c + 1)
       ELSE Frame(tracks[2], r - f1 + 1, 2 * c + 2)

\* C11: with a running engine and a playlist of two good files, the frames
\* broadcast are those of the first file in file order, then those of the
\* second, and so on in turn; a listener attached before the first frame has
\* them all; one snapshot is published per track, in playlist order, and as
\* many snapshots are out as tracks have begun
C11_PlaylistOrder ==
    (/\ isRunning
     /\ Len(tracks) = 2
     /\ \A t \in 1..2 : files[t].kind = "ok" /\ files[t].frames >= 1)
    => /\ \A i \in 1..Len(log) : log[i] = PlayedFrame(i)
       /\ \A k \in 1..Len(pubLog) :
             pubLog[k] = [track |-> tracks[((k - 1) % 2) + 1], startedAt |-> k]
       /\ Len(pubLog) = IF log = <<>> THEN 0 ELSE log[Len(log)].stamp
       /\ \A c \in Range(clients) : attachAt[c] = 0 => recv[c] = log

\* C11, its case: a listener attached before the first frame has every frame
\* of both files, and two snapshots are out
C11_Witness ==
    /\ isRunning
    /\ Len(tracks) = 2
    /\ files[1] = [kind |-> "ok", frames |-> MaxFrames]
    /\ files[2] = [kind |-> "ok", frames |-> MaxFrames]
    /\ 1 \in Range(clients) /\ attachAt[1] = 0
    /\ Len(recv[1]) = 2 * MaxFrames
    /\ recv[1][MaxFrames].track = 1 /\ recv[1][MaxFrames + 1].track = 2
    /\ Len(pubLog) = 2

\* C12: with a single-track playlist whose file is there, every answered
\* call of the provider has published exactly one snapshot, each of that
\* track; and a started engine goes on replaying until it is stopped (or the
\* bound on provider calls is met)
C12_OnePublishPerReplay ==
    /\ [](Len(tracks) = 1 /\ files[1].kind # "missing" =>
            /\ Len(pubLog) = calls - Cardinality({l \in Loops : pc[l] = "provider"})
            /\ \A k \in 1..Len(pubLog) : pubLog[k] = [track |-> tracks[1], startedAt |-> k]
            /\ \A k \in 1..Len(changes) : changes[k].track = tracks[1])
    /\ (Len(tracks) = 1 /\ files[1].kind # "missing" /\ isRunning /\ Active # {})
          ~> (~isRunning \/ Len(pubLog) = MaxCalls)

\* C12, its case: the single track has been played and replayed
C12_Witness ==
    /\ isRunning
    /\ Len(tracks) = 1
    /\ files[1].kind = "ok" /\ files[1].frames >= 1
    /\ Len(pubLog) = MaxCalls
    /\ Len(log) >= 2 /\ log[Len(log)].stamp = MaxCalls

\* C13: while the playlist is empty no frame is broadcast, no listener is
\* written anything and nowPlaying stays null; the provider's answer leads to
\* the 5 s wait, and the end of the wait to another call of the provider
\* (or, once stopped, to the end of the loop)
C13_EmptyPlaylist ==
    /\ [](tracks = <<>> =>
            /\ log = <<>> /\ pubLog = <<>> /\ changes = <<>>
            /\ nowPlaying = NoNowPlaying
            /\ \A c \in Listeners : recv[c] = <<>>
            /\ \A l \in Loops : cur[l] = NoTrack
            /\ \A l \in Loops : pc[l] \in {"idle", "provider", "emptyWait", "done"})
    /\ [][tracks = <<>> =>
            \A l \in Loops :
               /\ (pc[l] = "provider" /\ pc'[l] # "provider") => pc'[l] = "emptyWait"
               /\ (pc[l] = "emptyWait" /\ pc'[l] # "emptyWait") =>
                     IF isRunning THEN pc'[l] = "provider" /\ calls' = calls + 1
                     ELSE pc'[l] = "done"]_vars

\* C13, its case: the provider answered absent twice, with a listener waiting
C13_Witness ==
    /\ tracks = <<>>
    /\ isRunning
    /\ calls >= 2
    /\ pc[1] = "emptyWait"
    /\ clients # <<>>

\* ids is tr in some order: the same ids, each as many times
IsPermutation(ids, tr) ==
    /\ Len(ids) = Len(tr)
    /\ \A x \in Range(ids) \cup Range(tr) : Count(ids, x) = Count(tr, x)

\* C14: whenever the playlist is not empty both cursors are indices of it,
\* whatever calls of getNextTrack, notifyTrackChange, reorderTracks (with any
\* list of ids) and reload were made
C14_CursorsValid ==
    Len(tracks) > 0 =>
        /\ nextIndex \in 0..(Len(tracks) - 1)
        /\ playingIndex \in 0..(Len(tracks) - 1)

\* C14, its case: after a reorder and a track change, getNextTrack handed out
\* the last track of the list and the cursor wrapped
C14_Witness ==
    /\ tracks = <<2, 1>>
    /\ playingIndex = 1
    /\ op.name = "getNextTrack" /\ op.track = 1
    /\ nextIndex = 0
    /\ changes # <<>>

\* C15: a reorder with a permutation of the playlist leaves under each
\* cursor a track of the same id as before
C15_ReorderKeepsTracks ==
    [][(op'.name = "reorderTracks" /\ op'.ok /\ IsPermutation(op'.ids, tracks)) =>
          /\ TrackAt(tracks', playingIndex') = TrackAt(tracks, playingIndex)
          /\ TrackAt(tracks', nextIndex') = TrackAt(tracks, nextIndex)]_vars

\* C15, its case: the two tracks were swapped while the cursors stood on
\* different tracks, and both cursors moved
C15_Witness ==
    /\ op.name = "reorderTracks" /\ op.ok /\ op.ids = <<2, 1>>
    /\ tracks = <<2, 1>>
    /\ playingIndex = 0 /\ nextIndex = 1
    /\ changes # <<>> /\ changes[Len(changes)] = [track |-> 2, currentIndex |-> 1]

\* C16 (as claimed): a reorder with a list that is not a permutation of the
\* playlist returns false, changes neither the list nor a cursor and pushes
\* nothing
C16_RejectNonPermutation ==
    [][(op'.name = "reorderTracks" /\ ~IsPermutation(op'.ids, tracks)) =>
          /\ ~op'.ok
          /\ tracks' = tracks
          /\ nextIndex' = nextIndex
          /\ playingIndex' = playingIndex
          /\ op'.sent = NoMsg]_vars

\* C17 (as claimed): a reorder with the current order changes neither the
\* list nor a cursor
C17_ReorderCurrentOrder ==
    [][(op'.name = "reorderTracks" /\ op'.ids = tracks) =>
          /\ tracks' = tracks
          /\ nextIndex' = nextIndex
          /\ playingIndex' = playingIndex]_vars

\* C18: after reload() the playlist is the scan of the directory, ids 1..n in
\* order, with both cursors 0 and that snapshot pushed, whatever it was
\* before; so a second reload() finds and leaves the same state
C18_ReloadResets ==
    op.name = "reload" =>
        /\ tracks = LoadTracksFromDisk
        /\ tracks = [i \in 1..Len(tracks) |-> i]
        /\ nextIndex = 0
        /\ playingIndex = 0
        /\ op.sent = PlaylistMsg(tracks, 0)

\* C18, its case: reload() was called after track changes had moved the
\* playing cursor off 0
C18_Witness ==
    /\ op.name = "reload"
    /\ Len(tracks) = 2
    /\ Len(changes) = 2
    /\ changes[2].currentIndex = 1

\* k calls of getNextTrack in a row: the tracks handed out, and the cursor
RECURSIVE HandOut(_, _, _)
HandOut(tr, ni, k) ==
    IF k = 0 THEN [handed |-> <<>>, nextIndex |-> ni]
    ELSE LET g == GetNextTrack(tr, ni)
             r == HandOut(tr, g.nextIndex, k - 1)
         IN [handed |-> <<g.track>> \o r.handed, nextIndex |-> r.nextIndex]

\* C19: a call of the provider hands out tracks[nextIndex], moves nextIndex
\* to (nextIndex + 1) mod len, leaves the list alone and notifies the track
\* change of the track it hands out; and from any state len calls in a row
\* hand out the list once, in order from the cursor round, bring the
\* cursor back, and the call after them hands out the first of them again
C19_ProviderRound ==
    /\ [](Len(tracks) > 0 =>
            LET n == Len(tracks)
                r == HandOut(tracks, nextIndex, n)
            IN /\ r.handed = [j \in 1..n |-> tracks[((nextIndex + j - 1) % n) + 1]]
               /\ r.nextIndex = nextIndex
               /\ HandOut(tracks, nextIndex, n + 1).handed[n + 1] = r.handed[1])
    /\ [][calls' = calls + 1 =>
            /\ op'.name = "provider"
            /\ op'.track = TrackAt(tracks, nextIndex)
            /\ tracks' = tracks
            /\ Len(tracks) > 0 =>
                  /\ nextIndex' = (nextIndex + 1) % Len(tracks)
                  /\ playingIndex' = NotifyTrackChange(tracks, playingIndex, op'.track)
                  /\ changes' = Append(changes, [track |-> op'.track,
                                                 currentIndex |-> playingIndex'])]_vars

\* C19, its case: three calls of the provider on a playlist of two handed out
\* the first, the second, and the first again
C19_Witness ==
    /\ tracks = <<1, 2>>
    /\ calls = 3
    /\ op.name = "provider"
    /\ changes = <<[track |-> 1, currentIndex |-> 0],
                   [track |-> 2, currentIndex |-> 1],
                   [track |-> 1, currentIndex |-> 0]>>

RECURSIVE Flatten(_)
Flatten(ss) == IF ss = <<>> THEN <<>> ELSE Head(ss) \o Flatten(Tail(ss))

\* C20: every payload the reader yielded is the bytes of the frame of that
\* rank, read at that frame's offset in the file; once the reader has
\* returned null it has yielded every frame, and the payloads put end to end
\* are the file without its ID3 block and without the bytes between and
\* after the frames
C20_PayloadsAreTheFrames ==
    fd # "none" =>
        /\ Len(yielded) <= Len(layout.parts)
        /\ \A k \in 1..Len(yielded) :
              /\ yielded[k].data = FrameOf(layout, k)
              /\ yielded[k].offset = Len(BytesUpTo(layout, k)) - Len(FrameOf(layout, k))
              /\ yielded[k].data =
                    SubSeq(bytes, yielded[k].offset + 1,
                           yielded[k].offset + Len(yielded[k].data))
        /\ eof =>
              /\ Len(yielded) = Len(layout.parts)
              /\ Flatten([k \in 1..Len(yielded) |-> yielded[k].data])
                    = Flatten([k \in 1..Len(layout.parts) |-> FrameOf(layout, k)])

\* C20, its case: a file with an ID3 block that holds the bytes of a header,
\* two frames, one of them padded, bytes between them and after them, read
\* to its end
C20_Witness ==
    /\ eof
    /\ Len(layout.tag) > 10
    /\ Len(yielded) = 2
    /\ layout.parts[1].garbage = <<255>>
    /\ layout.parts[2].garbage = <<0, 0, 0>>
    /\ layout.parts[1].header # layout.parts[2].header
    /\ layout.trail = <<0, 0>>

\* the first three bytes of a file spell 'ID3'
SpellsID3(b) == Len(b) >= 3 /\ SubSeq(b, 1, 3) = <<73, 68, 51>>

\* C21 (as claimed): the constructor leaves the position at 10 + L when the
\* first three bytes of the file spell ID3, L being the synchsafe integer of
\* bytes 6..9, and at 0 otherwise; and after the header `ID3 04 00 00 00 00 00
\* 0A` and 10 bytes, the first frame yielded is the one at offset 20
C21_TagSkip ==
    /\ [][(fd = "none" /\ fd' = "open") =>
            position' = IF SpellsID3(bytes)
                        THEN 10 + Synchsafe(ReadBuf(bytes, 0, 10))
                        ELSE 0]_vars
    /\ [](/\ SubSeq(bytes, 1, 10) = <<73, 68, 51, 4, 0, 0, 0, 0, 0, 10>>
          /\ yielded # <<>>
          => /\ yielded[1].offset = 20
             /\ yielded[1].data = FrameOf(layout, 1))

\* a file with 3 bytes of 0x00 between every two frames and no other byte
\* that is not of a frame, and its well-formed copy
ZeroSpaced(f) ==
    /\ Len(f.parts) >= 2
    /\ f.parts[1].garbage = <<>>
    /\ \A k \in 2..Len(f.parts) : f.parts[k].garbage = <<0, 0, 0>>
    /\ f.trail = <<>>
WellFormed(f) ==
    [f EXCEPT !.parts = [k \in 1..Len(f.parts) |-> [f.parts[k] EXCEPT !.garbage = <<>>]]]

\* C22: the frames read from a file with 3 zero bytes between its frames are,
\* payload for payload and duration for duration, those read from its
\* well-formed copy, all of them once the reader has returned null; and from
\* an offset whose 4 bytes parse as no header, readNextFrame gives what it
\* gives from the offset 1 byte further
C22_ZeroBytesResync ==
    (ZeroSpaced(layout) /\ fd # "none") =>
        LET ref == ReadFile(BytesOf(WellFormed(layout))) IN
        /\ Len(ref) = Len(layout.parts)
        /\ Len(yielded) <= Len(ref)
        /\ \A k \in 1..Len(yielded) :
              /\ yielded[k].data = ref[k].data
              /\ yielded[k].header = ref[k].header
        /\ eof => Len(yielded) = Len(ref)
        /\ \A k \in 2..Len(layout.parts) :
              \A j \in 1..3 :
                 LET at == Len(BytesUpTo(layout, k - 1)) + j - 1 IN
                 /\ ParseFrameHeader(ReadBuf(bytes, at, 4)) = NoHeader
                 /\ ReadNextFrame(bytes, fileSize, at)
                       = ReadNextFrame(bytes, fileSize, at + 1)

\* C22, its case: a file of two different frames with 3 zero bytes between
\* them, behind an ID3 block, read to its end
C22_Witness ==
    /\ ZeroSpaced(layout)
    /\ Len(layout.tag) > 10
    /\ layout.parts[1].header # layout.parts[2].header
    /\ eof
    /\ Len(yielded) = 2
    /\ yielded[2].offset = Len(layout.tag) + layout.parts[1].header.size + 3

\* the version field of a header: bits 4-3 of its byte 1
VersionField(h) == (h[2] \div 8) % 4

\* C23 (as claimed): no 4 bytes whose version field is not that of MPEG-1
\* are accepted as a header, so every frame yielded opens with an MPEG-1 header
\* and a non-MPEG-1 header at the position makes the reader look further on
C23_OnlyMpeg1 ==
    /\ \A k \in 1..Len(yielded) : VersionField(yielded[k].data) = 3
    /\ \A at \in 0..(Len(bytes) - 4) :
          VersionField(ReadBuf(bytes, at, 4)) # 3 =>
              ParseFrameHeader(ReadBuf(bytes, at, 4)) = NoHeader

\* a track whose file is there, opens and holds frames
GoodTrack(g) == g \in DOMAIN files /\ files[g].kind = "ok" /\ files[g].frames >= 1

\* how many times the last frame of track g has been broadcast
PlaysOf(g) ==
    Cardinality({i \in 1..Len(log) : log[i].track = g /\ log[i].idx = files[g].frames})

\* C24: while the engine runs, a track whose file is good is streamed to its
\* end once more, whatever the files of the other tracks are, as long as the
\* provider is called (it is called MaxCalls times at most here); and a loop
\* that met a missing file or a file that does not open asks for the next track
C24_BadFilesDoNotStall ==
    /\ \A g \in 1..MaxTracks : \A n \in 0..MaxCalls :
          (GoodTrack(g) /\ isRunning /\ Active # {} /\ PlaysOf(g) = n)
             ~> (~isRunning \/ PlaysOf(g) > n \/ calls = MaxCalls)
    /\ \A l \in Loops :
          (pc[l] = "errWait" /\ isRunning)
             ~> (~isRunning \/ pc[l] = "provider" \/ calls = MaxCalls)

\* C24, its case: the first track's file does not open, the second's is
\* good and has been streamed to its end, and the producer is in the back-off
\* after the first track failed again
C24_Witness ==
    /\ isRunning
    /\ Len(tracks) = 2
    /\ files[1].kind = "bad"
    /\ GoodTrack(2)
    /\ PlaysOf(2) = 1
    /\ calls = 3
    /\ pc[1] = "errWait"

\* a track whose file is there and holds no byte
ZeroByte(t) == t \in DOMAIN files /\ files[t].kind = "ok" /\ files[t].size = 0

\* C25: on a file of no byte the reader yields no frame and raises nothing;
\* streamTrack broadcasts no frame of that track, closes the descriptor it
\* opened and never leads to the error back-off; when it is over the loop asks for the
\* next track (or ends, once stopped)
C25_ZeroByteFile ==
    /\ [](\A t \in DOMAIN files :
            ZeroByte(t) =>
               /\ files[t].frames = 0
               /\ \A i \in 1..Len(log) : log[i].track # t
               /\ \A l \in Loops : cur[l] = t => pc[l] \notin {"pace", "errWait"})
    /\ [][ZeroByte(cur[1]) =>
            /\ (pc[1] = "provider" /\ pc'[1] # "provider") =>
                   /\ pc'[1] = "trackEnd"
                   /\ UNCHANGED <<log, recv, openFds>>
                   /\ nowPlaying'.track = cur[1]
            /\ (pc[1] = "trackEnd" /\ pc'[1] # "trackEnd") =>
                   IF isRunning THEN pc'[1] = "provider" /\ calls' = calls + 1
                   ELSE pc'[1] = "done"]_vars

\* C25, its case: after a file of frames, a file of no byte was handed out
\* and left for the next track, with a listener attached all along
C25_Witness ==
    /\ isRunning
    /\ Len(tracks) = 2
    /\ files[1].kind = "ok" /\ files[1].frames >= 1
    /\ ZeroByte(2)
    /\ calls = 3
    /\ cur[1] = 1
    /\ pc[1] = "pace"
    /\ Len(pubLog) = 3
    /\ 1 \in Range(clients) /\ attachAt[1] = 0 /\ recv[1] = log

\* C26: the first message of a playlist subscriber is the playlist snapshot
\* of the moment it attached, tracks in order and playingIndex as
\* currentIndex; an accepted reorder and a reload write the snapshot of the
\* state they leave, once, to every subscriber of the set that is not ended,
\* and to no other; a subscriber whose write throws is written nothing and is
\* out of the set
C26_PlaylistSnapshots ==
    /\ [](\A s \in Panels :
            plConn[s] = "open" =>
               /\ plRecv[s] # <<>>
               /\ plRecv[s][1].type = "playlist")
    /\ [][\A s \in Panels :
            (plConn[s] = "none" /\ plConn'[s] = "open") =>
               /\ plRecv'[s] = <<PlaylistMsg(tracks, playingIndex)>>
               /\ s \in Range(plSseClients')]_vars
    /\ [][(op'.name = "reload" \/ (op'.name = "reorderTracks" /\ op'.ok)) =>
            /\ op'.sent = PlaylistMsg(tracks', playingIndex')
            /\ \A s \in Panels :
                  IF s \in Range(plSseClients) /\ ~plEnded[s]
                  THEN \/ /\ plRecv'[s] = Append(plRecv[s], op'.sent)
                          /\ s \in Range(plSseClients')
                       \/ /\ plRecv'[s] = plRecv[s]
                          /\ s \notin Range(plSseClients')
                  ELSE /\ plRecv'[s] = plRecv[s]
                       /\ s \notin Range(plSseClients')]_vars

\* C26, its case: two subscribers attached to the playlist as loaded, the
\* tracks were swapped, and both were written the new order with the cursor
\* that followed the playing track
C26_Witness ==
    /\ tracks = <<2, 1>>
    /\ playingIndex = 1
    /\ op.name = "reorderTracks" /\ op.ok
    /\ \A s \in 1..2 :
          /\ s \in Range(plSseClients)
          /\ plRecv[s] = <<PlaylistMsg(<<1, 2>>, 0), PlaylistMsg(<<2, 1>>, 1)>>

\* the sum of the durations of the frames counted so far
SumOfDurations == frameCount * frameDurationMs

FramesOut == IF timerPc \in {"sleep", "spin"} THEN frameCount + 1 ELSE frameCount

\* C28: a frame is never released early: frame k+1 is broadcast when the time
\* elapsed is at least the sum of the durations of frames 1..k, and wait()
\* returns only when the time elapsed is at least the sum of all durations
\* added.  Lateness does not accumulate: the time wait() aims at is the
\* timer's start plus the durations added, whenever the frames before were
\* released, and wait() returns as soon as that time is reached.
C28_NeverEarlyNoDrift ==
    /\ [](/\ timerPc # "idle" => elapsedTargetMs = FramesOut * frameDurationMs
          /\ timerPc = "ready" => ActualElapsed >= elapsedTargetMs)
    /\ [][/\ (timerPc = "ready" /\ timerPc' # "ready") =>
                /\ ActualElapsed >= SumOfDurations
                /\ startTime' = startTime
                /\ elapsedTargetMs' = (frameCount + 1) * frameDurationMs
          /\ (timerPc = "spin" /\ timerPc' = "ready") =>
                /\ now' - startTime >= elapsedTargetMs
                /\ now' <= Larger(now, startTime + elapsedTargetMs) + 1]_vars

\* C28, its case: a frame was released late, and the wait() after it
\* returned at the time it aimed at
C28_Witness ==
    /\ timerPc = "ready"
    /\ frameCount >= 2
    /\ lateBy >= 4 * MsUs
    /\ ActualElapsed <= elapsedTargetMs + 1

\* C29: after an error of a track whose file was opened, the reader's
\* descriptor is closed before the next track is requested, and at no time
\* is more than one reader open.
C29_ReaderClosedOnError ==
    /\ openFds <= 1
    /\ pc[1] = "provider" => openFds = 0

\* a track whose file is not on the disk
Missing(t) == t \in DOMAIN files /\ files[t].kind = "missing"

\* C30: a track whose file is not on the disk is never the snapshot, is never
\* published, and no frame of it is broadcast; the step that finds the file
\* missing leaves the snapshot, the publications, the frames sent and the
\* descriptors as they are, and asks the provider for the next track (or
\* ends, once stopped): the cursor moves by that one request only.
C30_MissingFilePassedOver ==
    /\ [](\A t \in DOMAIN files :
            Missing(t) =>
               /\ nowPlaying.track # t
               /\ \A i \in 1..Len(pubLog) : pubLog[i].track # t
               /\ \A i \in 1..Len(log) : log[i].track # t)
    /\ [][(/\ pc[1] = "provider"
           /\ Missing(cur[1])
           /\ (pc'[1] # "provider" \/ calls' # calls)) =>
            /\ UNCHANGED <<nowPlaying, pubLog, log, recv, srecv, openFds, pos, stamp>>
            /\ IF isRunning
                  THEN /\ pc'[1] = "provider"
                       /\ calls' = calls + 1
                       /\ cur'[1] = tracks[nextIndex + 1]
                       /\ nextIndex' = (nextIndex + 1) % Len(tracks)
                  ELSE /\ pc'[1] = "done"
                       /\ UNCHANGED <<cur, nextIndex, playingIndex>>]_vars

\* C30, its case: the first track's file is not there; it was passed over
\* with a listener attached, and the second track plays
C30_Witness ==
    /\ isRunning
    /\ Len(tracks) = 2
    /\ Missing(1)
    /\ files[2].kind = "ok" /\ files[2].frames >= 1
    /\ calls = 2
    /\ cur[1] = 2
    /\ pc[1] = "pace"
    /\ Len(pubLog) = 1
    /\ nowPlaying.track = 2
    /\ openFds = 1
    /\ 1 \in Range(clients) /\ attachAt[1] = 0 /\ recv[1] = log

\* C31: notifyTrackChange(track) leaves the UI cursor on a track of that id
\* when the list has one, and where it was when it has none; the trackChange
\* message carries the track and the cursor as it is after the call, and is
\* written once to every subscriber of the set that is not ended (one whose
\* write throws is written nothing and dropped).
C31_NotifyTrackChange ==
    [][op'.name = "notifyTrackChange" /\ Len(changes') = Len(changes) + 1 =>
        LET id == op'.track IN
        /\ IF \E i \in 1..Len(tracks) : tracks[i] = id
              THEN /\ tracks[playingIndex' + 1] = id
                   /\ \A i \in 1..playingIndex' : tracks[i] # id
              ELSE playingIndex' = playingIndex
        /\ op'.sent = TrackChangeMsg(id, playingIndex')
        /\ \A s \in Panels :
              IF s \in Range(plSseClients) /\ ~plEnded[s]
              THEN \/ /\ plRecv'[s] = Append(plRecv[s], op'.sent)
                      /\ s \in Range(plSseClients')
                   \/ /\ plRecv'[s] = plRecv[s]
                      /\ s \notin Range(plSseClients')
              ELSE /\ plRecv'[s] = plRecv[s]
                   /\ s \notin Range(plSseClients')]_vars

\* C31, its case: the cursor was on the second track when a subscriber
\* attached; a change to a track that is not in the list left it there, and
\* the subscriber was written that cursor
C31_Witness ==
    /\ tracks = <<1, 2>>
    /\ playingIndex = 1
    /\ op.name = "notifyTrackChange"
    /\ op.track = MaxTracks + 1
    /\ 1 \in Range(plSseClients)
    /\ plRecv[1] = <<PlaylistMsg(<<1, 2>>, 1), TrackChangeMsg(MaxTracks + 1, 1)>>

\* the heartbeats among the messages written to a subscriber
Beats(msgs) == Len(SelectSeq(msgs, LAMBDA m : m = HeartbeatMsg \/ m = PlaylistBeatMsg))

\* C32: the interval of a subscriber runs exactly while the subscriber is
\* open; a tick writes one heartbeat to its own subscriber when that one is
\* not ended, nothing when it is, and nothing to any other subscriber; no
\* heartbeat is written to a subscriber that is closed or ended.
C32_HeartbeatWhileOpen ==
    /\ [](/\ \A s \in Subscribers : hb[s] <=> sconn[s] = "open"
          /\ \A s \in Panels : plHb[s] <=> plConn[s] = "open")
    /\ [][beats' = beats + 1 =>
            \/ /\ plRecv' = plRecv
               /\ \E s \in Subscribers :
                     /\ sconn[s] = "open"
                     /\ srecv' = [srecv EXCEPT ![s] =
                                     IF sended[s] THEN @ ELSE Append(@, HeartbeatMsg)]
            \/ /\ srecv' = srecv
               /\ \E s \in Panels :
                     /\ plConn[s] = "open"
                     /\ plRecv' = [plRecv EXCEPT ![s] =
                                      IF plEnded[s] THEN @ ELSE Append(@, PlaylistBeatMsg)]]_vars
    /\ [][/\ \A s \in Subscribers :
               Beats(srecv'[s]) > Beats(srecv[s]) =>
                  sconn[s] = "open" /\ ~sended[s] /\ beats' = beats + 1
          /\ \A s \in Panels :
               Beats(plRecv'[s]) > Beats(plRecv[s]) =>
                  plConn[s] = "open" /\ ~plEnded[s] /\ beats' = beats + 1]_vars

\* C32, its case: of two playlist subscribers the first was closed and the
\* second ended; the tick of the second wrote nothing to either
C32_Witness ==
    /\ beats = 1
    /\ plConn[1] = "closed"
    /\ plConn[2] = "open" /\ plEnded[2]
    /\ Beats(plRecv[1]) = 0
    /\ Beats(plRecv[2]) = 0
    /\ \E s \in Subscribers : sconn[s] = "open"

\* C33: whatever the file holds, every readNextFrame() returns a frame or
\* null: none raises; and once null is returned the position is at or past
\* the end of the file, or fewer than 4 bytes are left.
C33_ReadsEndAtNull ==
    /\ ~thrown
    /\ eof => (position >= fileSize \/ fileSize - position < 4)

\* C34: reset() leaves the reader at the byte that follows the ID3v2 block,
\* where the constructor left it; whenever it is called, the frames returned
\* after it are, one by one, those a reader just made on the file returns,
\* and null comes when that one returns null.
C34_ResetReentrant ==
    /\ [](fd = "open" /\ ~thrown =>
            LET ref == ReadFile(bytes) IN
            /\ Len(yielded) <= Len(ref)
            /\ \A i \in 1..Len(yielded) : yielded[i] = ref[i]
            /\ eof => Len(yielded) = Len(ref))
    /\ [][resets' = resets + 1 =>
            /\ position' = SkipId3v2Tag(bytes)
            /\ position' = Len(layout.tag)
            /\ fd' = fd /\ fileSize' = fileSize]_vars

\* C34, its case: a file with an ID3v2 block that holds the bytes of a frame
\* header and two frames; the reader was reset after its first frame and
\* again at the end of the file, and then read the file to its end
C34_Witness ==
    /\ Len(layout.tag) = 14
    /\ Len(layout.parts) = 2
    /\ resets = 2
    /\ eof
    /\ Len(yielded) = 2
    /\ yielded[1].offset >= 14

\* C35: every payload yielded is frameSize bytes long and is the bytes the
\* file holds from the frame's offset on: a frame that would end beyond the
\* end of the file is not yielded.
C35_PayloadsFromFile ==
    \A k \in 1..Len(yielded) :
        /\ Len(yielded[k].data) = yielded[k].header.frameSize
        /\ yielded[k].offset + Len(yielded[k].data) <= Len(bytes)
        /\ yielded[k].data =
              SubSeq(bytes, yielded[k].offset + 1, yielded[k].offset + Len(yielded[k].data))

\* C36: once stop() has turned the flag off, and start() not being called
\* again, no frame is broadcast and no listener is written one: every step
\* taken while the flag is off leaves the frames sent as they are and adds
\* nothing to what a listener was written, whether the loop was pacing a
\* frame, awaiting the provider or backing off
C36_NoFrameAfterStop ==
    [][~isRunning =>
          /\ log' = log
          /\ \A c \in Listeners : Len(recv'[c]) <= Len(recv[c])]_vars

\* C36, its case: the engine was stopped in the middle of a file with a
\* listener attached that had been written frames, and the loop is over
C36_Witness ==
    /\ ~isRunning
    /\ pc[1] = "done"
    /\ cur[1] # NoTrack
    /\ pos[1] >= 1
    /\ pos[1] < files[cur[1]].frames
    /\ \E c \in Range(clients) : recv[c] # <<>>

\* C37: between two consecutive calls of the track provider the loop has
\* passed through a timed suspension: the step that calls the provider again
\* is taken at the end of the 5 s wait, at the end of the 1 s back-off, or at
\* the return of a streamTrack that paced at least one frame
C37_SuspendedBetweenCalls ==
    [][(calls' = calls + 1 /\ pc[1] # "idle") =>
          \/ pc[1] \in {"emptyWait", "errWait"}
          \/ pc[1] = "trackEnd" /\ pos[1] >= 1]_vars

\* C38: while the frames of a track are being broadcast, the track at the
\* playlist's playing cursor is the track of the broadcaster's snapshot,
\* whatever reorders were asked for and whatever missing files were passed
\* over (no reload takes place)
C38_ChannelsAgree ==
    pc[1] = "pace" => TrackAt(tracks, playingIndex) = nowPlaying.track

\* C39: whatever calls of getNextTrack, notifyTrackChange and reorderTracks
\* (with any list of ids, accepted or rejected) were made, the playlist holds
\* the ids that were loaded from the disk, each of them once
C39_NoTrackLostOrDuplicated == IsPermutation(tracks, LoadTracksFromDisk)

\* C40: a call of getNextTrack leaves the playing cursor and the list as they
\* are; a call of notifyTrackChange leaves the production cursor and the list
\* as they are, so the track handed out next is the same before and after it
C40_CursorsIndependent ==
    [][/\ op'.name = "getNextTrack" =>
             playingIndex' = playingIndex /\ tracks' = tracks
       /\ op'.name = "notifyTrackChange" =>
             /\ nextIndex' = nextIndex
             /\ tracks' = tracks
             /\ GetNextTrack(tracks', nextIndex') = GetNextTrack(tracks, nextIndex)]_vars

\* C40, its case: a change to the second track was reported, and getNextTrack
\* then handed out the first: each cursor stands where its own call put it
C40_Witness ==
    /\ tracks = <<1, 2>>
    /\ op.name = "getNextTrack" /\ op.track = 1
    /\ nextIndex = 1
    /\ playingIndex = 1
    /\ changes = <<[track |-> 2, currentIndex |-> 1]>>

====
